---------------------------- MODULE Spec2Model ----------------------------
(***************************************************************************)
(* A model of rsync-Phoenix-Rebuilt (src/rsync_phoenix_rebuilt.py): the    *)
(* rolling-checksum delta engine (signature, matcher, apply), the token    *)
(* stream that carries a delta on the wire, the protocol handshake, the    *)
(* file-list codec, the multiplexed channel and the integer codecs.        *)
(*                                                                         *)
(* Sizes are scaled down: block lengths of 2 and 3 bytes stand for the     *)
(* engine's block sizes, ChunkSize for CHUNK_SIZE (32 KiB) and a two       *)
(* letter alphabet for the byte values of the files.  Integers are encoded *)
(* on the wire byte for byte as the code encodes them.                     *)
(*                                                                         *)
(* The strong checksum is stored and compared as a prefix of s2length      *)
(* bytes (two bytes for small files), so distinct byte strings can have    *)
(* the same stored digest.  The digest is modelled as the byte string      *)
(* itself, except for at most one pair of distinct strings, chosen when a  *)
(* run starts, that share a digest (sum2_collision).                       *)
(***************************************************************************)
EXTENDS Integers, Sequences, FiniteSets, TLC

VARIABLES
  \* the two files, the engine's settings and the digest's colliding pair
  basis, new_file_data, signature, updating_basis_file, sum2_collision,
  \* generate_delta: position in the code and its local variables
  pc, offset, k, s1, s2, lit_start, want_i, last_match,
  aligned_offset, aligned_i, same_offset, instructions, match_path,
  compression_ratio,
  \* apply_delta's return value
  result,
  \* the byte stream between sender and receiver, and the receiver's state
  wire, sum_head, recv_tokens, recv_result, recv_status,
  \* the compressed token stream: the mode, the state of the sending and of
  \* the receiving ProtocolIO and the send_token calls made so far
  do_compression, tx, rx, sent_calls,
  \* setup_protocol_wire: the options, the client-info string given to the
  \* server, each side's position and locals, the bytes in flight to each side
  opts, client_info, hs, chan,
  \* _choose_from_remote_list: the two lists and what each rule selects
  neg,
  \* file_list_roundtrip_over_wire: the entries and options of the call, the
  \* bytes in the file between sender and receiver, and what each side made
  fl,
  \* a multiplexed input: the raw stream, the reader's state and what its
  \* calls returned; a multiplexed output: the writer's state and the stream
  mx, mo,
  \* the argument and the result of a codec call, and the whole-file digest
  \* that follows a token stream
  cx, fs,
  \* receive_data: its arguments, the unread bytes and its locals
  rv,
  \* generate_signature and generate_signature_streaming on one file
  sg,
  \* _generate_delta_streaming: its locals and its buffer
  sm,
  \* the module's match statistics and the generate_delta runs that share them
  gs,
  \* an IOBuffer fed from a file descriptor and what was read from it
  ib

engine_vars == <<basis, new_file_data, signature, updating_basis_file,
                 sum2_collision>>
matcher_vars == <<offset, k, s1, s2, lit_start, want_i, last_match,
                  aligned_offset, aligned_i, same_offset, instructions,
                  match_path, compression_ratio>>
wire_vars == <<wire, sum_head, recv_tokens, recv_result, recv_status>>
token_vars == <<do_compression, tx, rx, sent_calls>>
handshake_vars == <<opts, client_info, hs, chan>>
late_vars == <<sm, gs, ib>>
extra_vars == <<mx, mo, cx, fs, rv, sg, late_vars>>
vars == <<engine_vars, pc, matcher_vars, result, wire_vars, token_vars,
          handshake_vars, neg, fl, extra_vars>>

\* What the delta pipeline, the token stream, the handshake and the choice of
\* an algorithm each leave alone.
pipeline_frame == <<token_vars, handshake_vars, neg, fl, extra_vars>>
token_frame == <<engine_vars, matcher_vars, result, sum_head, recv_result,
                 handshake_vars, neg, fl, extra_vars>>
handshake_frame == <<engine_vars, pc, matcher_vars, result, wire_vars,
                     token_vars, neg, fl, extra_vars>>
choice_frame == <<engine_vars, matcher_vars, result, wire_vars, token_vars,
                  handshake_vars, fl, extra_vars>>
flist_frame == <<engine_vars, matcher_vars, result, wire_vars, token_vars,
                 handshake_vars, neg, extra_vars>>
\* What the parts below leave alone, their own variable apart.
base_vars == <<engine_vars, matcher_vars, result, wire_vars, token_vars,
               handshake_vars, neg, fl>>
mplex_in_frame == <<base_vars, mo, cx, fs, rv, sg, late_vars>>
mplex_out_frame == <<base_vars, mx, cx, fs, rv, sg, late_vars>>
codec_frame == <<base_vars, mx, mo, fs, rv, sg, late_vars>>
filesum_frame == <<base_vars, mx, mo, cx, rv, sg, late_vars>>
receive_frame == <<base_vars, mx, mo, cx, fs, sg, late_vars>>
signature_frame == <<base_vars, mx, mo, cx, fs, rv, late_vars>>
early_vars == <<mx, mo, cx, fs, rv, sg>>
stream_frame == <<base_vars, early_vars, gs, ib>>
stats_frame == <<base_vars, early_vars, sm, ib>>
iobuffer_frame == <<base_vars, early_vars, sm, gs>>

Sides == {"server", "client"}
Peer(p) == IF p = "server" THEN "client" ELSE "server"

\* No fixed choice, no name chosen yet.
NoChoice == << >>

\* The handshake before setup_protocol_wire is called.
HandshakeIdle ==
  /\ opts = [p \in Sides |->
               [crtimes |-> FALSE, inc_recursive |-> FALSE, compress |-> FALSE,
                checksum_seed |-> 0, checksum_choice |-> NoChoice,
                compress_choice |-> NoChoice]]
  /\ client_info = {}
  /\ hs = [p \in Sides |->
             [pc |-> "start", local_proto |-> 32, remote_proto |-> 0,
              negotiated |-> 0, compat_flags |-> 0,
              do_negotiated_strings |-> FALSE, xfer_flags_as_varint |-> FALSE,
              checksum_choice |-> NoChoice, compress_choice |-> NoChoice,
              seed |-> 0, wrote |-> << >>, reads |-> << >>]]
  /\ chan = [p \in Sides |-> << >>]

ChoiceIdle ==
  neg = [client_list |-> << >>, server_list |-> << >>,
         server_pick |-> NoChoice, client_pick |-> NoChoice]

\* RsyncOptions(): the fields the file list reads, at their defaults.
FlistDefaults ==
  [preserve_owner |-> FALSE, preserve_group |-> FALSE, preserve_links |-> FALSE,
   preserve_devices |-> FALSE, preserve_specials |-> FALSE, atimes |-> FALSE,
   crtimes |-> FALSE]

FlistIdle ==
  fl = [entries |-> << >>, opts |-> FlistDefaults, protocol_version |-> 32,
        xfer_flags_as_varint |-> TRUE, wire |-> << >>, send_status |-> "none",
        received |-> << >>, recv_status |-> "none"]

\* A ProtocolIO whose input is not read yet: io_start_multiplex_in() done.
MplexInIdle ==
  mx = [transport |-> "sock", raw |-> << >>, closed |-> FALSE,
        in_data |-> << >>, in_msgs |-> << >>, in_eof |-> FALSE,
        eof_consumed |-> FALSE, restarted |-> FALSE, arrived |-> << >>,
        returned |-> << >>, taken |-> << >>, delivered |-> << >>,
             calls |-> 0,
        last |-> [call |-> "none", status |-> "none", after_eof |-> FALSE]]

\* A ProtocolIO with nothing written: io_start_multiplex_out() done.
MplexOutIdle ==
  mo = [out_data |-> << >>, raw |-> << >>, frames |-> << >>, calls |-> 0,
        status |-> "none", written |-> << >>]

CodecIdle == cx = [op |-> "none"]

FileSumIdle == fs = [pc |-> "none"]

ReceiveIdle == rv = [pc |-> "none"]

SignatureIdle == sg = [pc |-> "none"]

StreamIdle == sm = [pc |-> "none"]

StatsIdle == gs = [pc |-> "none"]

IOBufferIdle == ib = [pc |-> "none"]

LateIdle == StreamIdle /\ StatsIdle /\ IOBufferIdle

ExtraIdle ==
  /\ MplexInIdle /\ MplexOutIdle /\ CodecIdle /\ FileSumIdle /\ ReceiveIdle
  /\ SignatureIdle
  /\ LateIdle

(***************************************************************************)
(* Bounds of the model                                                     *)
(***************************************************************************)
MaxBasisLen == 3
MaxNewLen == 7
ChunkSize == 2

ByteVals == {0, 1}
BlockSizes == {2, 3}

(***************************************************************************)
(* Generic helpers                                                         *)
(***************************************************************************)
\* A local of the code: F of the value x, computed once.
With(x, F(_)) == F(x)

Min(a, b) == IF a < b THEN a ELSE b
Max(a, b) == IF a > b THEN a ELSE b

\* Python slice data[lo:hi] on a 0-based byte string held as a 1-based sequence.
Slice(data, lo, hi) ==
  LET h == Min(hi, Len(data))
  IN  IF lo >= h THEN << >> ELSE [i \in 1..(h - lo) |-> data[lo + i]]

\* data[i] with a 0-based index.
At(data, i) == data[i + 1]

SeqsUpTo(S, n) == UNION {[1..m -> S] : m \in 0..n}

RECURSIVE SumSeq(_)
SumSeq(s) == IF s = << >> THEN 0 ELSE Head(s) + SumSeq(Tail(s))

RECURSIVE Concat(_)
Concat(ss) == IF ss = << >> THEN << >> ELSE Head(ss) \o Concat(Tail(ss))

(***************************************************************************)
(* Checksum primitives (class Checksum)                                    *)
(***************************************************************************)
CHAR_OFFSET == 0
M16 == 65536

RECURSIVE RollLoop(_, _, _, _, _, _)
RollLoop(data, start, length, i, a, b) ==
  IF i >= length THEN <<a, b>>
  ELSE LET byte_val == At(data, start + i) + CHAR_OFFSET
           n1 == (a + byte_val) % M16
           n2 == (b + n1) % M16
       IN  RollLoop(data, start, length, i + 1, n1, n2)

combine_checksum(a, b) == (a % M16) + (b % M16) * M16

checksum_components(checksum) == <<checksum % M16, (checksum \div M16) % M16>>

\* Checksum.rolling_checksum: the byte-at-a-time loop.
rolling_checksum(data, start, length) ==
  LET r == RollLoop(data, start, length, 0, 0, 0)
  IN  r[1] + r[2] * M16

\* The four-byte loop alone: the bytes after the last whole group are left
\* out.
RECURSIVE Roll4Upto_groups(_, _, _, _, _, _, _)
Roll4Upto_groups(data, start, length, upto, i, a, b) ==
  IF i >= upto \/ i >= length - 3 THEN <<a, b, Max(i, Min(upto, length))>>
  ELSE LET b0 == At(data, start + i) + CHAR_OFFSET
           b1 == At(data, start + i + 1) + CHAR_OFFSET
           b2 == At(data, start + i + 2) + CHAR_OFFSET
           b3 == At(data, start + i + 3) + CHAR_OFFSET
           n2 == (b + 4 * (a + b0) + 3 * b1 + 2 * b2 + b3) % M16
           n1 == (a + b0 + b1 + b2 + b3) % M16
       IN  Roll4Upto_groups(data, start, length, upto, i + 4, n1, n2)

\* The two loops of rolling_checksum_optimized from byte i of the window
\* until i reaches upto: groups of four bytes "while i < length - 3", then
\* byte by byte "while i < length".  The result is s1, s2 and i.
RECURSIVE Roll4Upto(_, _, _, _, _, _, _)
Roll4Upto(data, start, length, upto, i, a, b) ==
  IF i >= upto THEN <<a, b, i>>
  ELSE IF i < length - 3
  THEN LET b0 == At(data, start + i) + CHAR_OFFSET
           b1 == At(data, start + i + 1) + CHAR_OFFSET
           b2 == At(data, start + i + 2) + CHAR_OFFSET
           b3 == At(data, start + i + 3) + CHAR_OFFSET
           n2 == (b + 4 * (a + b0) + 3 * b1 + 2 * b2 + b3) % M16
           n1 == (a + b0 + b1 + b2 + b3) % M16
       IN  Roll4Upto(data, start, length, upto, i + 4, n1, n2)
  ELSE LET byte_val == At(data, start + i) + CHAR_OFFSET
           n1 == (a + byte_val) % M16
           n2 == (b + n1) % M16
       IN  Roll4Upto(data, start, length, upto, i + 1, n1, n2)

Roll4Loop(data, start, length, i, a, b) ==
  SubSeq(Roll4Upto(data, start, length, length, i, a, b), 1, 2)

\* Checksum.rolling_checksum_optimized: four bytes per iteration, then the tail.
rolling_checksum_optimized(data, start, length) ==
  LET r == Roll4Loop(data, start, length, 0, 0, 0)
  IN  r[1] + r[2] * M16

\* A rolling_update that takes the leaving byte out of s2 once, not length
\* times.
rolling_update_once(old_byte, new_byte, old_s1, old_s2, length) ==
  LET old_val == old_byte + CHAR_OFFSET
      new_val == new_byte + CHAR_OFFSET
      new_s1 == (old_s1 - old_val + new_val) % M16
      new_s2 == (old_s2 - old_val + new_s1) % M16
  IN  <<new_s1, new_s2>>

\* Checksum.rolling_update: slide the window one byte to the right.
rolling_update(old_byte, new_byte, old_s1, old_s2, length) ==
  LET old_val == old_byte + CHAR_OFFSET
      new_val == new_byte + CHAR_OFFSET
      new_s1 == (old_s1 - old_val + new_val) % M16
      new_s2 == (old_s2 - length * old_val + new_s1) % M16
  IN  <<new_s1, new_s2>>

\* A shrink that takes the leaving byte out of s2 once, not len times.
shrink_update_once(old_byte, a, b, len) ==
  <<(a - (old_byte + CHAR_OFFSET)) % M16, (b - (old_byte + CHAR_OFFSET)) % M16>>

\* The EOF branch of the matcher: drop the leftmost byte, window one shorter.
shrink_update(old_byte, a, b, len) ==
  LET old_val == old_byte + CHAR_OFFSET
  IN  <<(a - old_val) % M16, (b - len * old_val) % M16>>

(***************************************************************************)
(* Signature (ChecksumEngine.generate_signature, Checksum.block_checksums) *)
(***************************************************************************)
\* A block count that leaves out a short last block.
NumBlocks_floor(file_len, block_size) == file_len \div block_size

NumBlocks(file_len, block_size) == (file_len + block_size - 1) \div block_size

\* Checksum.strong_checksum followed by the [:s2length] truncation: both
\* members of the colliding pair have the digest of the first.
strong_checksum(data) ==
  IF sum2_collision # << >> /\ data = sum2_collision[2]
  THEN sum2_collision[1]
  ELSE data

BlockChecksum(file_data, block_size, i) ==
  LET block == Slice(file_data, i * block_size, i * block_size + block_size)
  IN  [weak_checksum   |-> rolling_checksum(block, 0, Len(block)),
       strong_checksum |-> strong_checksum(block),
       offset          |-> i * block_size,
       length          |-> Min(block_size, Len(file_data) - i * block_size)]

generate_signature(file_data, block_size) ==
  [block_size |-> block_size,
   file_size  |-> Len(file_data),
   num_blocks |-> NumBlocks(Len(file_data), block_size),
   blocks     |-> [j \in 1..NumBlocks(Len(file_data), block_size) |->
                     BlockChecksum(file_data, block_size, j - 1)]]

\* signature.blocks[i] with a 0-based index.
Blk(sig, i) == sig.blocks[i + 1]

(***************************************************************************)
(* Hash table (class HashTable)                                            *)
(***************************************************************************)
TRADITIONAL_TABLESIZE == 65536

TableSize(count) ==
  IF count > 0
  THEN Max((count \div 8) * 10 + 11, TRADITIONAL_TABLESIZE)
  ELSE TRADITIONAL_TABLESIZE

HashOf(weak_checksum, tablesize) ==
  IF tablesize = TRADITIONAL_TABLESIZE
  THEN ((weak_checksum % M16) + ((weak_checksum \div M16) % M16)) % M16
  ELSE weak_checksum % tablesize

RECURSIVE Ascending(_)
\* The members of a set of integers, in ascending order.
Ascending(S) ==
  IF S = {} THEN << >>
  ELSE LET m == CHOOSE x \in S : \A y \in S : x <= y
       IN  <<m>> \o Ascending(S \ {m})

\* HashTable._table[h]: the chain of a bucket, in insertion order.
Bucket(sig, h) ==
  Ascending({i \in 0..(sig.num_blocks - 1) :
               HashOf(Blk(sig, i).weak_checksum, TableSize(sig.num_blocks)) = h})

\* HashTable.lookup_indices(weak, length=k).
lookup_indices(sig, weak_checksum, length) ==
  LET chain == Bucket(sig, HashOf(weak_checksum, TableSize(sig.num_blocks)))
      Hit(i) == /\ Blk(sig, i).weak_checksum = weak_checksum
                /\ Blk(sig, i).length = length
  IN  SelectSeq(chain, Hit)

(***************************************************************************)
(* The delta engine: ChecksumEngine.generate_delta                         *)
(***************************************************************************)
None == -1

DeltaMatch(block_index, offset_in_new, length) ==
  [cmd |-> "match", block_index |-> block_index, offset |-> offset_in_new,
   length |-> length, data |-> << >>]

\* A faulty variant of DeltaLiteral: the literal is recorded one byte late.
DeltaLiteral_late(offset_in_new, data) ==
  [cmd |-> "literal", block_index |-> None, offset |-> offset_in_new + 1,
   length |-> Len(data), data |-> data]

DeltaLiteral(offset_in_new, data) ==
  [cmd |-> "literal", block_index |-> None, offset |-> offset_in_new,
   length |-> Len(data), data |-> data]

file_len == Len(new_file_data)
blength == signature.block_size

last_block_len ==
  IF signature.num_blocks > 0 THEN Blk(signature, signature.num_blocks - 1).length
  ELSE 0

\* A faulty variant of end: the loop stops one offset early.
end_short == IF last_block_len > 0 THEN file_len - last_block_len ELSE 0

\* match.c: end = len + 1 - s->sums[s->count-1].len
end == IF last_block_len > 0 THEN file_len + 1 - last_block_len ELSE 0

\* The windows of the new file and the blocks of the basis that have the same
\* weak checksum but different bytes: the only pairs whose digests the
\* matcher ever compares.
WeakCollisions(B, X, block_size) ==
  {<<Slice(B, i * block_size, (i + 1) * block_size), Slice(X, o, o + n)>> :
      <<i, o, n>> \in {t \in (0..(NumBlocks(Len(B), block_size) - 1))
                              \X (0..Len(X)) \X (1..block_size) :
           /\ t[2] + t[3] <= Len(X)
           /\ Slice(B, t[1] * block_size, (t[1] + 1) * block_size)
                # Slice(X, t[2], t[2] + t[3])
           /\ rolling_checksum(Slice(B, t[1] * block_size, (t[1] + 1) * block_size),
                               0, Len(Slice(B, t[1] * block_size, (t[1] + 1) * block_size)))
                = rolling_checksum(X, t[2], t[3])}}

\* The first index of a candidate list that verifies, or None.
RECURSIVE FirstVerified(_, _)
FirstVerified(candidate_indices, strong) ==
  IF candidate_indices = << >> THEN None
  ELSE IF strong = Blk(signature, Head(candidate_indices)).strong_checksum
       THEN Head(candidate_indices)
       ELSE FirstVerified(Tail(candidate_indices), strong)

\* An aligned cursor that is never advanced.
AlignSteps_none(from, to) == 0

\* while aligned_offset < offset: aligned_offset += blength; aligned_i += 1
AlignSteps(from, to) ==
  IF from < to THEN (to - from + blength - 1) \div blength ELSE 0

MatcherInit ==
  /\ offset = 0
  /\ k = Min(blength, file_len)
  /\ s1 = IF k > 0
          THEN checksum_components(rolling_checksum_optimized(new_file_data, 0, k))[1]
          ELSE 0
  /\ s2 = IF k > 0
          THEN checksum_components(rolling_checksum_optimized(new_file_data, 0, k))[2]
          ELSE 0
  /\ lit_start = 0
  /\ want_i = 0
  /\ last_match = 0
  /\ aligned_offset = 0
  /\ aligned_i = 0
  /\ same_offset = {}
  /\ instructions = << >>
  /\ match_path = "none"
  /\ compression_ratio = <<0, 1>>

\* ProtocolIO.__init__: the token state of a fresh sender and receiver.
TokenIdle ==
  /\ do_compression = "none"
  /\ tx = [last_token |-> -1, run_start |-> 0, last_run_end |-> 0,
           flush_pending |-> FALSE, z |-> << >>]
  /\ rx = [state |-> "r_init", token |-> 0, run |-> 0, inflate_buf |-> << >>,
           pending_out |-> << >>, z |-> 0, fed |-> << >>]
  /\ sent_calls = << >>

WireIdle ==
  /\ wire = << >>
  /\ sum_head = [count |-> 0, blength |-> 0, s2length |-> 0, remainder |-> 0]
  /\ recv_tokens = << >>
  /\ recv_result = << >>
  /\ recv_status = "none"

Init ==
  /\ basis \in SeqsUpTo(ByteVals, MaxBasisLen)
  /\ new_file_data \in SeqsUpTo(ByteVals, MaxNewLen)
  /\ updating_basis_file \in BOOLEAN
  /\ \E block_size \in BlockSizes :
       /\ sum2_collision \in {<< >>} \cup WeakCollisions(basis, new_file_data, block_size)
       /\ signature = generate_signature(basis, block_size)
  /\ pc = "loop"
  /\ MatcherInit
  /\ result = << >>
  /\ WireIdle
  /\ TokenIdle
  /\ HandshakeIdle
  /\ ChoiceIdle
  /\ FlistIdle
  /\ ExtraIdle

\* The engine at rest: the state of its variables in the runs that exercise
\* the other parts of the program.
PipelineIdle ==
  /\ basis = << >>
  /\ new_file_data = << >>
  /\ updating_basis_file = FALSE
  /\ sum2_collision = << >>
  /\ signature = generate_signature(<< >>, 2)
  /\ MatcherInit
  /\ result = << >>
  /\ sum_head = [count |-> 0, blength |-> 0, s2length |-> 0, remainder |-> 0]
  /\ recv_result = << >>

\* A bypass rule that lets every block through.
NotBypassed_all(sig, same, off, i) == TRUE

\* In an in-place update a block that lies before the current offset has
\* been overwritten, unless it was found at its own offset:
\* blocks[i].offset >= offset or i in same_offset
NotBypassed(sig, same, off, i) == Blk(sig, i).offset >= off \/ i \in same

\* One iteration of "while offset < end and k > 0" in generate_delta.
HashSearchStep ==
  /\ pc = "loop"
  /\ offset < end /\ k > 0
  /\ LET weak == combine_checksum(s1, s2)
         found == lookup_indices(signature, weak, k)
         strong == strong_checksum(Slice(new_file_data, offset, offset + k))
         Usable(i) == NotBypassed(signature, same_offset, offset, i)
         candidate_indices ==
           IF updating_basis_file THEN SelectSeq(found, Usable) ELSE found
         first == IF found = << >> THEN None
                  ELSE FirstVerified(candidate_indices, strong)
         \* the aligned path of an in-place update
         in_aligned == updating_basis_file /\ first # None
         steps == IF in_aligned THEN AlignSteps(aligned_offset, offset) ELSE 0
         al_offset == aligned_offset + steps * blength
         al_i == aligned_i + steps
         l == k
         aligned_ok ==
           /\ in_aligned
           /\ \/ offset = al_offset
              \/ weak = 0 /\ l = blength /\ al_offset + l <= file_len
           /\ al_i < signature.num_blocks
         take_aligned ==
           /\ aligned_ok
           /\ first # al_i
           /\ weak = Blk(signature, al_i).weak_checksum
           /\ l = Blk(signature, al_i).length
           /\ strong = Blk(signature, al_i).strong_checksum
         m1 == IF take_aligned THEN al_i ELSE first
         on_aligned == aligned_ok /\ m1 = al_i
         aligned_strong ==
           strong_checksum(Slice(new_file_data, al_offset, al_offset + l))
         move ==
           /\ on_aligned
           /\ offset # al_offset /\ al_offset + l <= file_len
           /\ aligned_strong = Blk(signature, m1).strong_checksum
         off1 == IF move THEN al_offset ELSE offset
         strong1 == IF move THEN aligned_strong ELSE strong
         same1 == IF on_aligned THEN same_offset \cup {m1} ELSE same_offset
         want1 == IF on_aligned THEN m1 ELSE want_i
         \* the want_i promotion
         promote ==
           /\ m1 # None /\ m1 # want1
           /\ want1 < signature.num_blocks
           /\ \/ ~updating_basis_file
              \/ NotBypassed(signature, same1, off1, want1)
           /\ weak = Blk(signature, want1).weak_checksum
           /\ strong1 = Blk(signature, want1).strong_checksum
         matched_index == IF promote THEN want1 ELSE m1
         \* the no-match branch
         more == (offset + k) < file_len
         old_byte == At(new_file_data, offset)
         slid == IF more
                 THEN rolling_update(old_byte, At(new_file_data, offset + k), s1, s2, k)
                 ELSE shrink_update(old_byte, s1, s2, k)
         backup == offset - last_match
         flush_end == offset - blength
         early_flush ==
           /\ backup >= blength + ChunkSize /\ end - offset > ChunkSize
           /\ flush_end > lit_start
     IN  IF matched_index # None
         THEN /\ instructions' =
                   instructions
                   \o (IF off1 > lit_start
                       THEN <<DeltaLiteral(lit_start, Slice(new_file_data, lit_start, off1))>>
                       ELSE << >>)
                   \o <<DeltaMatch(matched_index, off1, k)>>
              /\ match_path' = IF promote THEN "want_i"
                               ELSE IF on_aligned THEN "aligned" ELSE "candidate"
              /\ want_i' = matched_index + 1
              /\ last_match' = off1 + k
              /\ offset' = off1 + k
              /\ lit_start' = off1 + k
              /\ aligned_offset' = al_offset
              /\ aligned_i' = al_i
              /\ same_offset' = same1
              /\ IF off1 + k >= file_len
                 THEN pc' = "flush" /\ UNCHANGED <<k, s1, s2>>
                 ELSE LET k1 == Min(blength, file_len - (off1 + k))
                          weak0 == rolling_checksum_optimized(new_file_data, off1 + k, k1)
                      IN  /\ k' = k1
                          /\ IF k1 <= 0
                             THEN pc' = "flush" /\ UNCHANGED <<s1, s2>>
                             ELSE /\ pc' = "loop"
                                  /\ s1' = checksum_components(weak0)[1]
                                  /\ s2' = checksum_components(weak0)[2]
         ELSE /\ s1' = slid[1]
              /\ s2' = slid[2]
              /\ k' = IF more THEN k ELSE k - 1
              /\ instructions' =
                   IF early_flush
                   THEN Append(instructions,
                               DeltaLiteral(lit_start,
                                            Slice(new_file_data, lit_start, flush_end)))
                   ELSE instructions
              /\ lit_start' = IF early_flush THEN flush_end ELSE lit_start
              /\ last_match' = IF early_flush THEN flush_end ELSE last_match
              /\ offset' = offset + 1
              /\ UNCHANGED <<pc, want_i, aligned_offset, aligned_i, same_offset,
                             match_path>>
  /\ UNCHANGED <<engine_vars, compression_ratio, result, wire_vars>>
  /\ UNCHANGED pipeline_frame

match_bytes(instrs) ==
  SumSeq([n \in 1..Len(instrs) |->
            IF instrs[n].cmd = "match" THEN instrs[n].length ELSE 0])

literal_bytes(instrs) ==
  SumSeq([n \in 1..Len(instrs) |->
            IF instrs[n].cmd = "literal" THEN Len(instrs[n].data) ELSE 0])

\* The code after the loop: flush the remaining literal, compute the ratio
\* (kept as the fraction <<match_bytes, total_bytes>>; 0.0 is <<0, 1>>).
FinishDelta ==
  /\ pc = "flush" \/ (pc = "loop" /\ ~(offset < end /\ k > 0))
  /\ LET final == IF lit_start < file_len
                  THEN Append(instructions,
                              DeltaLiteral(lit_start,
                                           Slice(new_file_data, lit_start, file_len)))
                  ELSE instructions
         total_bytes == match_bytes(final) + literal_bytes(final)
     IN  /\ instructions' = final
         /\ compression_ratio' = IF total_bytes > 0
                                 THEN <<match_bytes(final), total_bytes>>
                                 ELSE <<0, 1>>
  /\ pc' = "done"
  /\ UNCHANGED <<engine_vars, offset, k, s1, s2, lit_start, want_i, last_match,
                 aligned_offset, aligned_i, same_offset, match_path, result,
                 wire_vars>>
  /\ UNCHANGED pipeline_frame

(***************************************************************************)
(* ChecksumEngine.apply_delta                                              *)
(***************************************************************************)
apply_delta(original_data, block_size, instrs) ==
  Concat([n \in 1..Len(instrs) |->
            IF instrs[n].cmd = "match"
            THEN Slice(original_data, instrs[n].block_index * block_size,
                       instrs[n].block_index * block_size + instrs[n].length)
            ELSE instrs[n].data])

ApplyDelta ==
  /\ pc = "done"
  /\ result' = apply_delta(basis, signature.block_size, instructions)
  /\ pc' = "applied"
  /\ UNCHANGED <<engine_vars, matcher_vars, wire_vars>>
  /\ UNCHANGED pipeline_frame

(***************************************************************************)
(* The wire: 32-bit integers, the sum header, the simple token stream      *)
(***************************************************************************)
PROTOCOL_VERSION == 32
MAX_BLOCK_SIZE == 131072
OLD_MAX_BLOCK_SIZE == 8192
MAX_DIGEST_LEN == 64
SHORT_SUM_LENGTH == 2
\* The four little-endian bytes of a number in 0 .. 2^31 - 1.
LE4(u) == <<u % 256, (u \div 256) % 256, (u \div 65536) % 256, (u \div 16777216) % 256>>

\* struct.pack('<i', value): two's complement, the bytes of a negative value
\* being the complements of the bytes of -(value + 1).
write_int(value) ==
  IF value >= 0 THEN LE4(value)
  ELSE [n \in 1..4 |-> 255 - LE4(-(value + 1))[n]]

\* struct.unpack('<i', data)[0] on the first four bytes of buf
read_int(buf) ==
  IF buf[4] < 128
  THEN buf[1] + 256 * buf[2] + 65536 * buf[3] + 16777216 * buf[4]
  ELSE -((255 - buf[1]) + 256 * (255 - buf[2]) + 65536 * (255 - buf[3])
         + 16777216 * (255 - buf[4])) - 1

Drop(buf, n) == SubSeq(buf, n + 1, Len(buf))

\* The literal part of _send_token_simple: (length, bytes) chunks of at most
\* CHUNK_SIZE bytes.
RECURSIVE send_chunks(_, _, _)
send_chunks(data, sent, n) ==
  IF sent >= n THEN << >>
  ELSE LET chunk_len == Min(ChunkSize, n - sent)
       IN  write_int(chunk_len) \o Slice(data, sent, sent + chunk_len)
           \o send_chunks(data, sent + chunk_len, n)

\* A faulty variant of send_token_simple: a match of block j leaves as
\* -(j + 2).
send_token_simple_shifted(token, data, n) ==
  (IF n > 0 THEN send_chunks(data, 0, n) ELSE << >>)
  \o (IF token = -2 THEN << >>
      ELSE IF token = -1 THEN write_int(0)
      ELSE write_int(-(token + 2)))

\* ProtocolIO._send_token_simple(token, data, 0, n); data = << >> is None.
send_token_simple(token, data, n) ==
  (IF n > 0 THEN send_chunks(data, 0, n) ELSE << >>)
  \o (IF token # -2 THEN write_int(-(token + 1)) ELSE << >>)

\* ProtocolIO._recv_token_simple: the token, its data and the unread bytes;
\* a stream that ends early is an EOFError.
recv_token_simple(buf) ==
  IF Len(buf) < 4 THEN [token |-> 0, data |-> << >>, rest |-> buf, eof |-> TRUE]
  ELSE LET i == read_int(buf)
       IN  IF i > 0
           THEN IF Len(buf) < 4 + i
                THEN [token |-> i, data |-> << >>, rest |-> buf, eof |-> TRUE]
                ELSE [token |-> i, data |-> SubSeq(buf, 5, 4 + i),
                      rest |-> Drop(buf, 4 + i), eof |-> FALSE]
           ELSE [token |-> i, data |-> << >>, rest |-> Drop(buf, 4), eof |-> FALSE]

s2length_of(sig) == IF sig.num_blocks > 0 THEN SHORT_SUM_LENGTH ELSE 0

sum_head_from_signature(sig) ==
  [count     |-> sig.num_blocks,
   blength   |-> sig.block_size,
   s2length  |-> s2length_of(sig),
   remainder |-> IF sig.num_blocks > 0
                    /\ Blk(sig, sig.num_blocks - 1).length # sig.block_size
                 THEN Blk(sig, sig.num_blocks - 1).length
                 ELSE 0]

\* A write_sum_head that writes s2length for every protocol version.
write_sum_head_always(sum_struct, protocol_version) ==
  write_int(sum_struct.count) \o write_int(sum_struct.blength)
  \o write_int(sum_struct.s2length) \o write_int(sum_struct.remainder)

write_sum_head(sum_struct, protocol_version) ==
  write_int(sum_struct.count) \o write_int(sum_struct.blength)
  \o (IF protocol_version >= 27 THEN write_int(sum_struct.s2length) ELSE << >>)
  \o write_int(sum_struct.remainder)

\* The loop of send_delta_over_wire over delta.instructions[n..]: literals
\* gather in pending and leave with the next match or with the end token.
RECURSIVE send_instructions(_, _, _)
send_instructions(instrs, n, pending) ==
  IF n > Len(instrs)
  THEN send_token_simple(-1, pending, Len(pending))
  ELSE IF instrs[n].cmd = "literal"
       THEN send_instructions(instrs, n + 1, pending \o instrs[n].data)
       ELSE send_token_simple(instrs[n].block_index, pending, Len(pending))
            \o send_instructions(instrs, n + 1, << >>)

SendDeltaOverWire ==
  /\ pc = "applied"
  /\ wire' = write_sum_head(sum_head_from_signature(signature), PROTOCOL_VERSION)
             \o send_instructions(instructions, 1, << >>)
  /\ pc' = "sent"
  /\ UNCHANGED <<engine_vars, matcher_vars, result, sum_head, recv_tokens,
                 recv_result, recv_status>>
  /\ UNCHANGED pipeline_frame

\* ProtocolIO.read_sum_head on the first bytes of buf.
read_sum_head(buf, protocol_version) ==
  LET max_blength == IF protocol_version < 30 THEN OLD_MAX_BLOCK_SIZE
                     ELSE MAX_BLOCK_SIZE
      count == read_int(buf)
      blen == read_int(Drop(buf, 4))
      s2len == IF protocol_version >= 27 THEN read_int(Drop(buf, 8))
               ELSE SHORT_SUM_LENGTH
      used == IF protocol_version >= 27 THEN 12 ELSE 8
      remainder == read_int(Drop(buf, used))
  IN  [head |-> [count |-> count, blength |-> blen, s2length |-> s2len,
                 remainder |-> remainder],
       rest |-> Drop(buf, used + 4),
       valid |-> /\ count >= 0
                 /\ blen >= 0 /\ blen <= max_blength
                 /\ s2len >= 0 /\ s2len <= MAX_DIGEST_LEN
                 /\ remainder >= 0 /\ remainder <= blen]

ReadSumHead ==
  /\ pc = "sent"
  /\ LET r == read_sum_head(wire, PROTOCOL_VERSION)
     IN  IF r.valid
         THEN /\ sum_head' = r.head
              /\ wire' = r.rest
              /\ pc' = "headed"
              /\ UNCHANGED recv_status
         ELSE /\ recv_status' = "ProtocolError"
              /\ pc' = "failed"
              /\ UNCHANGED <<sum_head, wire>>
  /\ UNCHANGED <<engine_vars, matcher_vars, result, recv_tokens, recv_result>>
  /\ UNCHANGED pipeline_frame

\* The loop of receive_data: every token read, the bytes rebuilt so far and
\* how the loop ended.
RECURSIVE receive_loop(_, _, _, _, _)
receive_loop(buf, basis_data, head, out, tokens) ==
  LET t == recv_token_simple(buf)
      seen == Append(tokens, <<t.token, t.data>>)
      block_num == -(t.token + 1)
      start == block_num * head.blength
      block_len == IF block_num = head.count - 1 /\ head.remainder > 0
                   THEN head.remainder ELSE head.blength
  IN  IF t.eof
      THEN [result |-> out, tokens |-> tokens, rest |-> t.rest, status |-> "EOFError"]
      ELSE IF t.token = 0
      THEN [result |-> out, tokens |-> seen, rest |-> t.rest, status |-> "ok"]
      ELSE IF t.token > 0
      THEN receive_loop(t.rest, basis_data, head, out \o t.data, seen)
      ELSE IF block_num < 0 \/ block_num >= head.count
      THEN [result |-> out, tokens |-> seen, rest |-> t.rest,
            status |-> "ProtocolError"]
      ELSE IF start + block_len <= Len(basis_data)
      THEN receive_loop(t.rest, basis_data, head,
                        out \o Slice(basis_data, start, start + block_len), seen)
      ELSE [result |-> out, tokens |-> seen, rest |-> t.rest,
            status |-> "ProtocolError"]

ReceiveData ==
  /\ pc = "headed"
  /\ LET r == receive_loop(wire, basis, sum_head, << >>, << >>)
     IN  /\ recv_result' = r.result
         /\ recv_tokens' = r.tokens
         /\ recv_status' = r.status
         /\ wire' = r.rest
         /\ pc' = IF r.status = "ok" THEN "received" ELSE "failed"
  /\ UNCHANGED <<engine_vars, matcher_vars, result, sum_head>>
  /\ UNCHANGED pipeline_frame

Next ==
  \/ HashSearchStep
  \/ FinishDelta
  \/ ApplyDelta
  \/ SendDeltaOverWire
  \/ ReadSumHead
  \/ ReceiveData

Spec == Init /\ [][Next]_vars

TypeOK ==
  /\ pc \in {"loop", "flush", "done", "applied", "sent", "headed", "received", "failed"}
  /\ offset \in 0..(MaxNewLen + 3)
  /\ k \in 0..3
  /\ recv_status \in {"none", "ok", "ProtocolError", "EOFError"}

(***************************************************************************)
(* Properties of the delta engine and of the simple token stream           *)
(***************************************************************************)
Delivered == pc \in {"done", "applied", "sent", "headed", "received", "failed"}
Matching == pc \in {"loop", "flush"}

IsMatch(ins) == ins.cmd = "match"
IsLiteral(ins) == ins.cmd = "literal"

\* C1: apply_delta(B, generate_delta(generate_signature(B), X)) returns
\* exactly X, for every basis B and every new file X.
C1_ApplyRebuildsNewFile ==
  pc = "applied" => result = new_file_data

\* The instructions are in strictly increasing offset order, every literal
\* carries at least one byte and the ranges tile [0, n) exactly once.
Covers(instrs, n) ==
  /\ \A i \in 1..Len(instrs) :
       /\ instrs[i].length >= 1
       /\ IsLiteral(instrs[i]) => Len(instrs[i].data) = instrs[i].length
       /\ instrs[i].offset = IF i = 1 THEN 0
                             ELSE instrs[i - 1].offset + instrs[i - 1].length
  /\ \A i, j \in 1..Len(instrs) : i < j => instrs[i].offset < instrs[j].offset
  /\ n = IF instrs = << >> THEN 0
         ELSE instrs[Len(instrs)].offset + instrs[Len(instrs)].length

\* C2: the returned instructions are in strictly increasing offset order,
\* every LITERAL carries at least one byte and the ranges partition [0, N)
\* exactly once; while matching runs the instructions emitted so far cover
\* exactly [0, lit_start) and lit_start <= offset.
C2_InstructionsPartition ==
  /\ Matching => Covers(instructions, lit_start) /\ lit_start <= offset
  /\ Delivered => Covers(instructions, file_len)

\* A finished delta in which an early flush cut the literal in two and a
\* match followed.
C2_Witness ==
  /\ pc = "done"
  /\ \E i \in 1..(Len(instructions) - 1) :
       IsLiteral(instructions[i]) /\ IsLiteral(instructions[i + 1])
  /\ \E i \in 1..Len(instructions) : IsMatch(instructions[i])

\* C3: the file rebuilt by read_sum_head + receive_data from the simple-mode
\* stream of send_delta_over_wire is exactly the new file.
C3_WireRebuildsNewFile ==
  pc = "received" => recv_result = new_file_data

\* The delta of a file against its own signature: no LITERAL, one MATCH per
\* block of the signature in block order, compression_ratio = 1.0.
IdentityDelta ==
  /\ \A i \in 1..Len(instructions) : IsMatch(instructions[i])
  /\ Len(instructions) = signature.num_blocks
  /\ \A i \in 1..Len(instructions) : instructions[i].block_index = i - 1
  /\ compression_ratio[1] = compression_ratio[2]

\* C4 as stated: for all X, generate_delta(generate_signature(X), X) has zero
\* LITERAL instructions, a MATCH for every block and compression_ratio = 1.0.
C4_Original ==
  (Delivered /\ basis = new_file_data) => IdentityDelta

\* C4, amended: the same for every non-empty X (the empty file has no bytes
\* to match and its compression_ratio is 0.0).
C4_IdentityDelta ==
  (Delivered /\ basis = new_file_data /\ file_len > 0) => IdentityDelta

\* An identity run over a file of at least two blocks whose last block is
\* short.
C4_Witness ==
  /\ pc = "done" /\ basis = new_file_data
  /\ signature.num_blocks >= 2
  /\ last_block_len < blength

\* C5: every MATCH has the length of the block it names and ends inside the
\* new file, whichever path chose the block.
C5_MatchLength ==
  \A i \in 1..Len(instructions) :
    IsMatch(instructions[i]) =>
      /\ instructions[i].length = Blk(signature, instructions[i].block_index).length
      /\ instructions[i].offset + instructions[i].length <= file_len

\* What a token stream or a delta says, byte by byte: the match indices and
\* the literal bytes in order.
RECURSIVE TokenEvents(_)
TokenEvents(tokens) ==
  IF tokens = << >> THEN << >>
  ELSE LET t == Head(tokens)
       IN  (IF t[1] = 0 THEN <<"end">>
            ELSE IF t[1] < 0 THEN <<<<"match", -(t[1] + 1)>>>>
            ELSE [n \in 1..Len(t[2]) |-> <<"byte", t[2][n]>>])
           \o TokenEvents(Tail(tokens))

RECURSIVE DeltaEvents(_)
DeltaEvents(instrs) ==
  IF instrs = << >> THEN << >>
  ELSE (IF IsMatch(Head(instrs)) THEN <<<<"match", Head(instrs).block_index>>>>
        ELSE [n \in 1..Len(Head(instrs).data) |-> <<"byte", Head(instrs).data[n]>>])
       \o DeltaEvents(Tail(instrs))

\* C6: decoding the simple-mode encoding of a delta yields, in order, the
\* same match indices and the same literal bytes, then the end token; every
\* literal token carries as many bytes as it announces, at most CHUNK_SIZE.
C6_SimpleTokenRoundTrip ==
  pc = "received" =>
    /\ TokenEvents(recv_tokens) = DeltaEvents(instructions) \o <<"end">>
    /\ \A n \in 1..Len(recv_tokens) :
         recv_tokens[n][1] > 0 =>
           /\ Len(recv_tokens[n][2]) = recv_tokens[n][1]
           /\ recv_tokens[n][1] <= ChunkSize
    /\ wire = << >>

\* A received stream whose delta has a literal longer than one chunk and a
\* match.
C6_Witness ==
  /\ pc = "received"
  /\ \E i \in 1..Len(instructions) :
       IsLiteral(instructions[i]) /\ Len(instructions[i].data) > ChunkSize
  /\ \E i \in 1..Len(instructions) : IsMatch(instructions[i])

(***************************************************************************)
(* The compressed token stream (ProtocolIO.send_token / recv_token)        *)
(*                                                                         *)
(* The compression libraries are modelled by small codecs that keep what   *)
(* the token code relies on.  deflate: a stream of one code per byte, held *)
(* back in the compressor until ZWindow bytes are there; a sync flush      *)
(* emits what is held back, then the header of an empty stored block and   *)
(* its four length bytes 00 00 ff ff.  zstd: the same stream without the   *)
(* stored block.  lz4: self-contained blocks, one length byte and the      *)
(* bytes.  MaxDataCount stands for MAX_DATA_COUNT (16383).                 *)
(***************************************************************************)
MaxCalls == 3
MaxDataCount == 2
ZWindow == 2

TokenVals == {0, 1, 70}
TokenLiterals == {<< >>, <<1>>, <<0, 1>>}
CompressionModes == {"zlib", "zlibx", "zstd", "lz4"}

END_FLAG == 0
TOKEN_LONG == 32
TOKENRUN_LONG == 33
DEFLATED_DATA == 64
TOKEN_REL == 128
TOKENRUN_REL == 192

Z_STORED == 0
SyncMarker == <<0, 0, 255, 255>>

ZCodes(data) == [n \in 1..Len(data) |-> data[n] + 1]

\* zlib compressobj.compress / ZstdCompressor stream_writer.write
z_compress(z, literal) ==
  LET all == z \o literal
      full == (Len(all) \div ZWindow) * ZWindow
  IN  [z |-> Drop(all, full), out |-> ZCodes(SubSeq(all, 1, full))]

\* zlib compressobj.flush(Z_SYNC_FLUSH)
deflate_flush(z) == [z |-> << >>, out |-> ZCodes(z) \o <<Z_STORED>> \o SyncMarker]

\* stream_writer.flush(FLUSH_BLOCK)
zstd_flush(z) == [z |-> << >>, out |-> ZCodes(z)]

\* lz4.block.compress(part, store_size=False)
lz4_compress(part) == <<Len(part)>> \o part

\* decompressobj.decompress(buf, max_length) of zlib; max_length = 0 is no
\* limit.  z = 0 expects a code, z = 1..4 the bytes of the stored block.
RECURSIVE inflate(_, _, _, _)
inflate(z, buf, out, max_length) ==
  IF buf = << >> \/ (max_length > 0 /\ Len(out) >= max_length)
  THEN [z |-> z, out |-> out, tail |-> buf, err |-> FALSE]
  ELSE IF z = 0
  THEN IF Head(buf) = Z_STORED THEN inflate(1, Tail(buf), out, max_length)
       ELSE IF Head(buf) - 1 \in ByteVals
       THEN inflate(0, Tail(buf), Append(out, Head(buf) - 1), max_length)
       ELSE [z |-> z, out |-> out, tail |-> buf, err |-> TRUE]
  ELSE IF Head(buf) = SyncMarker[z]
       THEN inflate((z + 1) % 5, Tail(buf), out, max_length)
       ELSE [z |-> z, out |-> out, tail |-> buf, err |-> TRUE]

\* ZstdDecompressor().decompressobj().decompress(buf)
zstd_decompress(buf) ==
  [out |-> [n \in 1..Len(buf) |-> buf[n] - 1],
   err |-> \E n \in 1..Len(buf) : buf[n] - 1 \notin ByteVals]

\* lz4.block.decompress(buf, uncompressed_size)
lz4_decompress(buf, uncompressed_size) ==
  [out |-> Drop(buf, 1),
   err |-> buf = << >> \/ buf[1] # Len(buf) - 1 \/ Len(buf) - 1 > uncompressed_size]

avail_out_size(avail_in_size) == (avail_in_size * 1001) \div 1000 + 16

\* ProtocolIO._write_token_run, with self._tx_last_run_end as an argument
write_token_run(run_start, last_token, last_run_end) ==
  LET r == run_start - last_run_end
      n == last_token - run_start
  IN  (IF r >= 0 /\ r <= 63
       THEN <<(IF n = 0 THEN TOKEN_REL ELSE TOKENRUN_REL) + r>>
       ELSE <<IF n = 0 THEN TOKEN_LONG ELSE TOKENRUN_LONG>> \o write_int(run_start))
      \o (IF n # 0 THEN <<n % 256, (n \div 256) % 256>> ELSE << >>)

RECURSIVE deflated_segments(_, _)
deflated_segments(comp, i) ==
  IF i >= Len(comp) THEN << >>
  ELSE LET chunk == Slice(comp, i, i + MaxDataCount)
           n == Len(chunk)
       IN  <<DEFLATED_DATA + ((n \div 256) % 64), n % 256>> \o chunk
           \o deflated_segments(comp, i + n)

\* ProtocolIO._send_deflated_data
send_deflated_data(comp, flush) ==
  IF flush /\ Len(comp) >= 4 /\ Slice(comp, Len(comp) - 4, Len(comp)) = SyncMarker
  THEN deflated_segments(SubSeq(comp, 1, Len(comp) - 4), 0)
  ELSE deflated_segments(comp, 0)

\* The halving loop of _send_token_lz4: the input length whose block fits
\* MAX_DATA_COUNT, or 0 when none does.
RECURSIVE lz4_fit(_, _, _)
lz4_fit(literal, pos, available_in) ==
  IF Len(lz4_compress(Slice(literal, pos, pos + available_in))) <= MaxDataCount
  THEN available_in
  ELSE IF available_in \div 2 <= 0 THEN 0
       ELSE lz4_fit(literal, pos, available_in \div 2)

RECURSIVE lz4_blocks(_, _)
lz4_blocks(literal, pos) ==
  IF pos >= Len(literal) THEN [out |-> << >>, err |-> FALSE]
  ELSE LET available_in == lz4_fit(literal, pos, Min(Len(literal) - pos, MaxDataCount))
           comp == lz4_compress(Slice(literal, pos, pos + available_in))
           more == lz4_blocks(literal, pos + available_in)
       IN  IF available_in = 0 THEN [out |-> << >>, err |-> TRUE]
           ELSE [out |-> <<DEFLATED_DATA + ((Len(comp) \div 256) % 64),
                           Len(comp) % 256>> \o comp \o more.out,
                 err |-> more.err]

\* The run bookkeeping that opens _send_token_zlibx, _send_token_zstd and
\* _send_token_lz4: the new sender state and the bytes written.
token_run_step(mode, t, token, n) ==
  IF t.last_token = -1
  THEN [tx |-> [t EXCEPT !.last_token = token, !.run_start = token,
                         !.last_run_end = 0, !.flush_pending = FALSE,
                         !.z = IF mode = "lz4" THEN t.z ELSE << >>],
        out |-> << >>]
  ELSE IF t.last_token = -2
  THEN [tx |-> [t EXCEPT !.last_token = token, !.run_start = token], out |-> << >>]
  ELSE IF n # 0 \/ token # t.last_token + 1 \/ token >= t.run_start + 65536
  THEN [tx |-> [t EXCEPT !.last_token = token, !.run_start = token,
                         !.last_run_end = t.last_token],
        out |-> IF t.last_token >= 0 /\ t.run_start >= 0
                THEN write_token_run(t.run_start, t.last_token, t.last_run_end)
                ELSE << >>]
  ELSE [tx |-> [t EXCEPT !.last_token = token], out |-> << >>]

\* ProtocolIO.send_token in a compressed mode: the new sender state, the
\* bytes written and whether ProtocolError was raised.
send_token_compressed(mode, t, token, data) ==
  LET n == Len(data)
      run == token_run_step(mode, t, token, n)
      t1 == run.tx
      flush_now == token # -2
      c == z_compress(t1.z, data)
      f == IF ~flush_now THEN [z |-> c.z, out |-> << >>]
           ELSE IF mode = "zstd" THEN zstd_flush(c.z) ELSE deflate_flush(c.z)
      lz == lz4_blocks(data, 0)
      body == IF mode = "lz4" THEN lz.out
              ELSE send_deflated_data(c.out \o f.out, flush_now /\ mode # "zstd")
      t2 == IF n # 0 \/ t1.flush_pending
            THEN [t1 EXCEPT !.flush_pending = (token = -2),
                            !.z = IF mode = "lz4" THEN t1.z ELSE f.z]
            ELSE t1
  IN  [tx  |-> t2,
       comp |-> IF mode # "lz4" /\ (n # 0 \/ t1.flush_pending)
                THEN c.out \o f.out ELSE << >>,
       out |-> run.out
               \o (IF n # 0 \/ t1.flush_pending THEN body ELSE << >>)
               \o (IF token = -1 THEN <<END_FLAG>> ELSE << >>),
       err |-> mode = "lz4" /\ n # 0 /\ lz.err]

\* One call of send_token(token, data, 0, len(data)) on the sending side.
SendToken ==
  /\ pc = "sending"
  /\ \E token \in TokenVals \cup {-2, -1}, data \in TokenLiterals :
       /\ Len(sent_calls) < MaxCalls \/ token = -1
       /\ LET r == send_token_compressed(do_compression, tx, token, data)
          IN  /\ tx' = r.tx
              /\ wire' = wire \o r.out
              /\ sent_calls' = Append(sent_calls, <<token, data>>)
              /\ recv_status' = IF r.err THEN "ProtocolError" ELSE recv_status
              /\ pc' = IF r.err THEN "tok_done"
                       ELSE IF token = -1 THEN "receiving" ELSE "sending"
  /\ UNCHANGED <<do_compression, rx, recv_tokens>>
  /\ UNCHANGED token_frame

\* _reset_rx_compression_state
reset_rx == [state |-> "r_idle", token |-> 0, run |-> 0, inflate_buf |-> << >>,
             pending_out |-> << >>, z |-> 0, fed |-> << >>]

Returned(r, buf, token, data, status) ==
  [rx |-> r, rest |-> buf, token |-> token, data |-> data, status |-> status]

\* "self._rx_pending_out.extend(out)" and the return of its first chunk
ReturnChunk(r, buf, out) ==
  LET pending == r.pending_out \o out
      n == Min(ChunkSize, Len(pending))
  IN  Returned([r EXCEPT !.pending_out = Drop(pending, n)], buf, n,
               SubSeq(pending, 1, n), "ok")

\* The "while True" loop of recv_token in a compressed mode.
RECURSIVE recv_loop(_, _, _)
recv_loop(mode, r, buf) ==
  IF r.state = "r_running"
  THEN Returned([r EXCEPT !.token = r.token + 1, !.run = r.run - 1,
                          !.state = IF r.run - 1 <= 0 THEN "r_idle" ELSE "r_running"],
                buf, -1 - (r.token + 1), << >>, "ok")
  ELSE IF r.state = "r_inflating" /\ mode \in {"zlib", "zlibx"}
  THEN LET d == inflate(r.z, r.inflate_buf, << >>, avail_out_size(ChunkSize))
           r1 == [r EXCEPT !.z = d.z, !.inflate_buf = d.tail,
                           !.fed = r.fed \o SubSeq(r.inflate_buf, 1,
                                                   Len(r.inflate_buf) - Len(d.tail)),
                           !.state = IF d.tail = << >> THEN "r_inflated"
                                     ELSE "r_inflating"]
       IN  IF d.err
           THEN Returned([r EXCEPT !.fed = r.fed \o r.inflate_buf], buf, 0, << >>,
                         "zlib.error")
           ELSE IF d.out # << >> THEN ReturnChunk(r1, buf, d.out)
           ELSE recv_loop(mode, r1, buf)
  ELSE IF r.state = "r_inflating"
  THEN LET d == IF mode = "zstd" THEN zstd_decompress(r.inflate_buf)
                ELSE lz4_decompress(r.inflate_buf, ChunkSize)
           r1 == [r EXCEPT !.inflate_buf = << >>, !.state = "r_idle",
                           !.fed = r.fed \o r.inflate_buf]
       IN  IF d.err THEN Returned(r, buf, 0, << >>, "codec.error")
           ELSE IF d.out # << >> THEN ReturnChunk(r1, buf, d.out)
           ELSE recv_loop(mode, r1, buf)
  ELSE LET \* leaving an inflated chunk: the sync bytes go back in
           sync == IF r.state = "r_inflated" /\ mode \in {"zlib", "zlibx"}
                   THEN inflate(r.z, SyncMarker, << >>, 0)
                   ELSE [z |-> r.z, out |-> << >>, tail |-> << >>, err |-> FALSE]
           r0 == IF r.state = "r_inflated" /\ mode \in {"zlib", "zlibx"}
                 THEN [r EXCEPT !.z = sync.z, !.state = "r_idle",
                                !.fed = r.fed \o SyncMarker]
                 ELSE r
           flag == Head(buf)
           n == (flag % 64) * 256 + buf[2]
           rel == flag >= TOKEN_REL
           token == IF rel THEN r0.token + (flag % 64) ELSE read_int(Drop(buf, 1))
           used == IF rel THEN 1 ELSE 5
           bits == IF rel THEN flag \div 64 ELSE flag
           is_run == bits % 2 = 1
       IN  IF sync.err
           THEN Returned([r EXCEPT !.fed = r.fed \o SyncMarker], buf, 0, << >>,
                         "zlib.error")
           ELSE IF buf = << >> THEN Returned(r0, buf, 0, << >>, "EOFError")
           ELSE IF (flag \div 64) % 4 = 1
           THEN IF Len(buf) < 2 \/ Len(buf) < 2 + n
                THEN Returned(r0, buf, 0, << >>, "EOFError")
                ELSE recv_loop(mode,
                               [r0 EXCEPT !.inflate_buf = SubSeq(buf, 3, 2 + n),
                                          !.state = "r_inflating"],
                               Drop(buf, 2 + n))
           ELSE IF flag = END_FLAG
           THEN Returned([r0 EXCEPT !.state = "r_init"], Drop(buf, 1), 0, << >>, "ok")
           ELSE IF Len(buf) < used + (IF is_run THEN 2 ELSE 0)
           THEN Returned(r0, buf, 0, << >>, "EOFError")
           ELSE IF token < 0
           THEN Returned(r0, buf, 0, << >>, "ProtocolError")
           ELSE IF is_run
           THEN Returned([r0 EXCEPT !.token = token,
                                    !.run = buf[used + 1] + buf[used + 2] * 256,
                                    !.state = "r_running"],
                         Drop(buf, used + 2), -1 - token, << >>, "ok")
           ELSE Returned([r0 EXCEPT !.token = token], Drop(buf, used),
                         -1 - token, << >>, "ok")

\* ProtocolIO.recv_token in a compressed mode
recv_token_compressed(mode, r, buf) ==
  IF r.pending_out # << >> THEN ReturnChunk(r, buf, << >>)
  ELSE recv_loop(mode, IF r.state = "r_init" THEN reset_rx ELSE r, buf)

\* One call of recv_token() on the receiving side.
RecvToken ==
  /\ pc = "receiving"
  /\ LET r == recv_token_compressed(do_compression, rx, wire)
     IN  /\ rx' = r.rx
         /\ wire' = r.rest
         /\ recv_tokens' = IF r.status = "ok"
                           THEN Append(recv_tokens, <<r.token, r.data>>)
                           ELSE recv_tokens
         /\ recv_status' = IF r.status # "ok" THEN r.status
                           ELSE IF r.token = 0 THEN "ok" ELSE recv_status
         /\ pc' = IF r.status # "ok" \/ r.token = 0 THEN "tok_done" ELSE "receiving"
  /\ UNCHANGED <<do_compression, tx, sent_calls>>
  /\ UNCHANGED token_frame

TokenInit ==
  /\ PipelineIdle
  /\ wire = << >>
  /\ recv_tokens = << >>
  /\ recv_status = "none"
  /\ do_compression \in CompressionModes
  /\ tx = [last_token |-> -1, run_start |-> 0, last_run_end |-> 0,
           flush_pending |-> FALSE, z |-> << >>]
  /\ rx = [state |-> "r_init", token |-> 0, run |-> 0, inflate_buf |-> << >>,
           pending_out |-> << >>, z |-> 0, fed |-> << >>]
  /\ sent_calls = << >>
  /\ pc = "sending"
  /\ HandshakeIdle
  /\ ChoiceIdle
  /\ FlistIdle
  /\ ExtraIdle

TokenNext == SendToken \/ RecvToken

TokenSpec == TokenInit /\ [][TokenNext]_vars

\* What the send_token calls say: each call's literal bytes, then its match
\* index or, for -1, the end.
RECURSIVE CallEvents(_)
CallEvents(calls) ==
  IF calls = << >> THEN << >>
  ELSE [n \in 1..Len(Head(calls)[2]) |-> <<"byte", Head(calls)[2][n]>>]
       \o (IF Head(calls)[1] >= 0 THEN <<<<"match", Head(calls)[1]>>>>
           ELSE IF Head(calls)[1] = -1 THEN <<"end">> ELSE << >>)
       \o CallEvents(Tail(calls))

\* C7: in every compressed mode the receiver re-emits the match indices and
\* the literal bytes of the send_token calls, in the same order, and then the
\* end token.
C7_CompressedRoundTrip ==
  pc = "tok_done" =>
    /\ recv_status = "ok"
    /\ TokenEvents(recv_tokens) = CallEvents(sent_calls)


(***************************************************************************)
(* Variable-length integers and strings of ProtocolIO.                     *)
(***************************************************************************)

\* _INT_BYTE_EXTRA, indexed by ch // 4.
INT_BYTE_EXTRA ==
  [i \in 0..63 |->
     IF i < 32 THEN 0
     ELSE IF i < 48 THEN 1
     ELSE IF i < 56 THEN 2
     ELSE IF i < 60 THEN 3
     ELSE IF i < 62 THEN 4
     ELSE IF i < 63 THEN 5
     ELSE 6]

\* 1 << n
RECURSIVE Shl1(_)
Shl1(n) == IF n = 0 THEN 1 ELSE 2 * Shl1(n - 1)

\* The count of bytes write_varint keeps: 4, less the trailing zero bytes.
RECURSIVE varint_cnt(_, _)
varint_cnt(b, cnt) ==
  IF cnt > 1 /\ b[cnt] = 0 THEN varint_cnt(b, cnt - 1) ELSE cnt

\* A write_varint without the prefix byte: the low byte of the value alone.
write_varint_byte(value) == <<value % 256>>

\* ProtocolIO.write_varint: the bytes written.  b is b[1:5] of the source.
write_varint(value) ==
  LET b == write_int(value)
      cnt == varint_cnt(b, 4)
      bit == Shl1(8 - cnt)
  IN  IF b[cnt] >= bit
        THEN <<256 - bit>> \o SubSeq(b, 1, cnt)
      ELSE IF cnt > 1
        THEN <<b[cnt] + (256 - 2 * bit)>> \o SubSeq(b, 1, cnt - 1)
      ELSE <<b[1]>>

\* The bytes read_varint needs before it returns or raises; 0 when the first
\* byte has not arrived.
varint_need(buf) ==
  IF buf = << >> THEN 0
  ELSE LET extra == INT_BYTE_EXTRA[buf[1] \div 4]
       IN  IF extra >= 5 THEN 1 ELSE 1 + extra

\* A read_varint that keeps the prefix byte whole: its high bits stay in the
\* value.
read_varint_nomask(buf) ==
  LET ch == buf[1]
      extra == INT_BYTE_EXTRA[ch \div 4]
      filled == SubSeq(buf, 2, 1 + extra) \o <<ch>> \o <<0, 0, 0, 0>>
  IN  IF extra = 0 THEN [status |-> "ok", value |-> ch, used |-> 1]
      ELSE IF extra >= 5
        THEN [status |-> "ProtocolError", value |-> 0, used |-> 1]
      ELSE [status |-> "ok", value |-> read_int(SubSeq(filled, 1, 4)),
            used |-> 1 + extra]

\* ProtocolIO.read_varint on the bytes at the head of buf.
read_varint(buf) ==
  LET ch == buf[1]
      extra == INT_BYTE_EXTRA[ch \div 4]
      bit == Shl1(8 - extra)
      filled == SubSeq(buf, 2, 1 + extra) \o <<ch % bit>> \o <<0, 0, 0, 0>>
  IN  IF extra = 0 THEN [status |-> "ok", value |-> ch, used |-> 1]
      ELSE IF extra >= 5
        THEN [status |-> "ProtocolError", value |-> 0, used |-> 1]
      ELSE [status |-> "ok", value |-> read_int(SubSeq(filled, 1, 4)),
            used |-> 1 + extra]

MAX_NSTR_STRLEN == 256

\* A write_vstring that leaves the length byte out.
write_vstring_bare(str) == [status |-> "ok", bytes |-> str]

\* ProtocolIO.write_vstring: the bytes written, or the error raised (write_byte
\* raises ValueError for a length above 255).
write_vstring(str) ==
  LET length == Len(str)
  IN  IF length > 32767 THEN [status |-> "ProtocolError", bytes |-> << >>]
      ELSE IF length > 255 THEN [status |-> "ValueError", bytes |-> << >>]
      ELSE [status |-> "ok",
            bytes |-> (IF length > 127 THEN <<length \div 256 + 128>> ELSE << >>)
                      \o <<length>> \o str]

\* The bytes read_vstring needs before it returns or raises; 0 when more
\* length bytes have to arrive first.
vstring_need(buf) ==
  IF buf = << >> THEN 0
  ELSE IF buf[1] >= 128
    THEN IF Len(buf) < 2 THEN 0
         ELSE LET length == (buf[1] - 128) * 256 + buf[2]
              IN  IF length >= MAX_NSTR_STRLEN THEN 2 ELSE 2 + length
  ELSE 1 + buf[1]

\* ProtocolIO.read_vstring on the bytes at the head of buf.
read_vstring(buf) ==
  LET two == buf[1] >= 128
      length == IF two THEN (buf[1] - 128) * 256 + buf[2] ELSE buf[1]
      head == IF two THEN 2 ELSE 1
  IN  IF length >= MAX_NSTR_STRLEN
        THEN [status |-> "ProtocolError", str |-> << >>, used |-> head]
      ELSE [status |-> "ok", str |-> SubSeq(buf, head + 1, head + length),
            used |-> head + length]

(***************************************************************************)
(* Algorithm names and _choose_from_remote_list.  A name is the sequence   *)
(* of its character codes; a list of names travels as one string, joined   *)
(* by spaces.                                                              *)
(***************************************************************************)

xxh128 == <<120, 120, 104, 49, 50, 56>>
xxh3 == <<120, 120, 104, 51>>
xxh64 == <<120, 120, 104, 54, 52>>
md5 == <<109, 100, 53>>
md4 == <<109, 100, 52>>
sha1 == <<115, 104, 97, 49>>
none == <<110, 111, 110, 101>>
zstd == <<122, 115, 116, 100>>
lz4 == <<108, 122, 52>>
zlibx == <<122, 108, 105, 98, 120>>
zlib == <<122, 108, 105, 98>>
Space == 32

default_checksum_name_list == <<xxh128, xxh3, xxh64, md5, md4, sha1, none>>
default_compress_name_list == <<zstd, lz4, zlibx, zlib, none>>

\* " ".join(names)
RECURSIVE join(_)
join(names) ==
  IF names = << >> THEN << >>
  ELSE IF Len(names) = 1 THEN names[1]
  ELSE names[1] \o <<Space>> \o join(Tail(names))

\* str.split(): the maximal runs of characters other than the separator.
RECURSIVE split_from(_, _)
split_from(str, word) ==
  IF str = << >> THEN (IF word = << >> THEN << >> ELSE <<word>>)
  ELSE IF Head(str) = Space
    THEN (IF word = << >> THEN << >> ELSE <<word>>) \o split_from(Tail(str), << >>)
  ELSE split_from(Tail(str), Append(word, Head(str)))

split(str) == split_from(str, << >>)

Range(seq) == {seq[i] : i \in 1..Len(seq)}

\* rank = {name: i for i, name in enumerate(local_pref)}: a later position of
\* a name replaces an earlier one.
rank(local_pref, tok) ==
  CHOOSE i \in 0..(Len(local_pref) - 1) :
    /\ local_pref[i + 1] = tok
    /\ \A j \in 0..(Len(local_pref) - 1) : local_pref[j + 1] = tok => j <= i

\* The client's loop over remote_list from position n (1-based) on, with the
\* best token and rank so far.
RECURSIVE client_scan(_, _, _, _, _)
client_scan(local_pref, remote_list, n, best_tok, best_rank) ==
  IF n > Len(remote_list) THEN best_tok
  ELSE LET tok == remote_list[n]
       IN  IF tok \in Range(local_pref) /\ rank(local_pref, tok) < best_rank
             THEN IF rank(local_pref, tok) = 0 THEN tok
                  ELSE client_scan(local_pref, remote_list, n + 1, tok,
                                   rank(local_pref, tok))
           ELSE client_scan(local_pref, remote_list, n + 1, best_tok, best_rank)

\* _choose_from_remote_list: the name chosen, or the error raised.
choose_from_remote_list(am_server, local_pref, remote_list) ==
  IF am_server
    THEN LET hits == {n \in 1..Len(remote_list) : remote_list[n] \in Range(local_pref)}
         IN  IF hits = {} THEN [status |-> "ProtocolError", name |-> NoChoice]
             ELSE [status |-> "ok",
                   name |-> remote_list[CHOOSE n \in hits : \A m \in hits : n <= m]]
  ELSE LET best_tok == client_scan(local_pref, remote_list, 1, NoChoice,
                                   Len(local_pref) + 1)
       IN  IF best_tok = NoChoice THEN [status |-> "ProtocolError", name |-> NoChoice]
           ELSE [status |-> "ok", name |-> best_tok]

(***************************************************************************)
(* setup_protocol_wire, run by a server and a client over a reliable       *)
(* full-duplex byte channel.  chan[p] holds the bytes flushed to p and not *)
(* yet read; a side takes a step that reads only when the bytes the read   *)
(* consumes have arrived.                                                  *)
(***************************************************************************)

MIN_PROTOCOL_VERSION == 20
MAX_PROTOCOL_VERSION == 40
SUBPROTOCOL_VERSION == 0
CF_INC_RECURSE == 1
CF_CHKSUM_SEED_FIX == 32
CF_VARINT_FLIST_FLAGS == 128

\* The protocol versions a side is started with, in range and out of range.
ProtoVersions == {19, 29, 30, 40, 41}
\* The letters of the client-info string the server is given.
ClientInfos == {{}, {"v"}, {"C", "i"}, {"C", "V", "i"}}
\* opts.checksum_seed (0 stands for None as well) and the seeds the server
\* draws from the clock and its pid.
OptSeeds == {0, 7}
RandomSeeds == {0, 305419896, 2147483647}
\* A fixed --checksum-choice, or none.
FixedChecksums == {NoChoice, md4}
\* A fixed --compress-choice, or none.
FixedCompressions == {NoChoice, zlib}

\* compat_flags & CF_VARINT_FLIST_FLAGS
HasVarintFlag(flags) == (flags \div CF_VARINT_FLIST_FLAGS) % 2 = 1

\* The compat flags the server builds from the options and the client info.
server_compat_flags(o, info) ==
  (IF "C" \in info THEN CF_CHKSUM_SEED_FIX ELSE 0)
  + (IF "v" \in info \/ "V" \in info \/ o.crtimes THEN CF_VARINT_FLIST_FLAGS ELSE 0)
  + (IF o.inc_recursive /\ "i" \in info THEN CF_INC_RECURSE ELSE 0)

HsSet(p, fields) == hs' = [hs EXCEPT ![p] = fields @@ hs[p]]

\* The history of a side: wrote names, byte by byte, the step that wrote
\* each byte it has sent; reads lists its reads, each with the step that
\* read and the steps of the peer that wrote the bytes it consumed.
Wrote(p, step, bytes) == hs[p].wrote \o [n \in 1..Len(bytes) |-> step]
HsConsumed(p, n) == Len(hs[Peer(p)].wrote) - Len(chan[p]) + n
ReadOf(p, step, n) == Append(hs[p].reads, [step |-> step, from |-> {hs[Peer(p)].wrote[i] : i \in (HsConsumed(p, 0) + 1)..HsConsumed(p, n)}])
Send(p, bytes) == chan' = [chan EXCEPT ![Peer(p)] = @ \o bytes]
Recv(p, n) == chan' = [chan EXCEPT ![p] = Drop(@, n)]

\* io.write_int(local_proto); io.flush()
HsWriteProto(p) ==
  /\ hs[p].pc = "start"
  /\ Send(p, write_int(hs[p].local_proto))
  /\ HsSet(p, [pc |-> "read_proto",
               wrote |-> Wrote(p, "proto", write_int(hs[p].local_proto))])
  /\ UNCHANGED <<opts, client_info>>
  /\ UNCHANGED handshake_frame

\* remote_proto = io.read_int() up to the compat flags: the server writes
\* them, the client goes on to read them.
HsReadProto(p) ==
  /\ hs[p].pc = "read_proto"
  /\ Len(chan[p]) >= 4
  /\ LET remote_proto == read_int(SubSeq(chan[p], 1, 4))
         negotiated == Min(hs[p].local_proto, remote_proto)
         flags == server_compat_flags(opts[p], client_info)
     IN  IF remote_proto < MIN_PROTOCOL_VERSION \/ remote_proto > MAX_PROTOCOL_VERSION
           THEN /\ HsSet(p, [pc |-> "ProtocolError", remote_proto |-> remote_proto,
                             reads |-> ReadOf(p, "proto", 4)])
                /\ Recv(p, 4)
         ELSE IF negotiated >= 30 /\ p = "server"
           THEN /\ HsSet(p, [pc |-> "write_names", remote_proto |-> remote_proto,
                             negotiated |-> negotiated, compat_flags |-> flags,
                             do_negotiated_strings |-> HasVarintFlag(flags),
                             xfer_flags_as_varint |-> HasVarintFlag(flags),
                             reads |-> ReadOf(p, "proto", 4),
                             wrote |-> Wrote(p, "flags", write_varint(flags))])
                /\ chan' = [chan EXCEPT ![p] = Drop(@, 4),
                                        ![Peer(p)] = @ \o write_varint(flags)]
         ELSE /\ HsSet(p, [pc |-> IF negotiated >= 30 THEN "read_flags"
                                  ELSE "write_names",
                           remote_proto |-> remote_proto,
                           negotiated |-> negotiated,
                           reads |-> ReadOf(p, "proto", 4)])
              /\ Recv(p, 4)
  /\ UNCHANGED <<opts, client_info>>
  /\ UNCHANGED handshake_frame

\* compat_flags = io.read_varint() on the client.
HsReadFlags(p) ==
  /\ hs[p].pc = "read_flags"
  /\ varint_need(chan[p]) > 0 /\ Len(chan[p]) >= varint_need(chan[p])
  /\ LET r == read_varint(chan[p])
     IN  /\ IF r.status # "ok"
              THEN HsSet(p, [pc |-> r.status, reads |-> ReadOf(p, "flags", r.used)])
            ELSE HsSet(p, [pc |-> "write_names", compat_flags |-> r.value,
                           do_negotiated_strings |-> HasVarintFlag(r.value),
                           xfer_flags_as_varint |-> HasVarintFlag(r.value),
                           reads |-> ReadOf(p, "flags", r.used)])
         /\ Recv(p, r.used)
  /\ UNCHANGED <<opts, client_info>>
  /\ UNCHANGED handshake_frame

\* The two write_vstring calls and their flushes.
HsWriteNames(p) ==
  /\ hs[p].pc = "write_names"
  /\ LET checksum_names ==
           IF opts[p].checksum_choice = NoChoice /\ hs[p].do_negotiated_strings
             THEN write_vstring(join(default_checksum_name_list)).bytes
           ELSE << >>
         compress_names ==
           IF opts[p].compress /\ opts[p].compress_choice = NoChoice
              /\ hs[p].do_negotiated_strings
             THEN write_vstring(join(default_compress_name_list)).bytes
           ELSE << >>
     IN  /\ Send(p, checksum_names \o compress_names)
         /\ HsSet(p, [pc |-> "read_checksum",
                      wrote |-> Wrote(p, "checksum_choice", checksum_names)
                                  \o [n \in 1..Len(compress_names) |-> "compress_choice"]])
  /\ UNCHANGED <<opts, client_info>>
  /\ UNCHANGED handshake_frame

\* One negotiated name: read the peer's list and choose from it.
NegotiateName(p, field, local_pref, next) ==
  /\ vstring_need(chan[p]) > 0 /\ Len(chan[p]) >= vstring_need(chan[p])
  /\ LET r == read_vstring(chan[p])
         c == choose_from_remote_list(p = "server", local_pref, split(r.str))
     IN  /\ IF r.status # "ok"
              THEN HsSet(p, [pc |-> r.status, reads |-> ReadOf(p, field, r.used)])
            ELSE IF c.status # "ok"
              THEN HsSet(p, [pc |-> c.status, reads |-> ReadOf(p, field, r.used)])
            ELSE hs' = [hs EXCEPT ![p].pc = next, ![p][field] = c.name,
                                  ![p].reads = ReadOf(p, field, r.used)]
         /\ Recv(p, r.used)

\* The checksum choice: fixed, negotiated, or the default of the protocol.
HsChecksum(p) ==
  /\ hs[p].pc = "read_checksum"
  /\ IF opts[p].checksum_choice # NoChoice
       THEN /\ HsSet(p, [pc |-> "read_compress",
                         checksum_choice |-> opts[p].checksum_choice])
            /\ UNCHANGED chan
     ELSE IF hs[p].do_negotiated_strings
       THEN NegotiateName(p, "checksum_choice", default_checksum_name_list,
                          "read_compress")
     ELSE /\ HsSet(p, [pc |-> "read_compress",
                       checksum_choice |-> IF hs[p].negotiated >= 30 THEN md5
                                           ELSE md4])
          /\ UNCHANGED chan
  /\ UNCHANGED <<opts, client_info>>
  /\ UNCHANGED handshake_frame

\* The compression choice: "none" without compression, else fixed,
\* negotiated, or zlib.
HsCompress(p) ==
  /\ hs[p].pc = "read_compress"
  /\ IF ~opts[p].compress
       THEN /\ HsSet(p, [pc |-> "seed", compress_choice |-> none])
            /\ UNCHANGED chan
     ELSE IF opts[p].compress_choice # NoChoice
       THEN /\ HsSet(p, [pc |-> "seed",
                         compress_choice |-> opts[p].compress_choice])
            /\ UNCHANGED chan
     ELSE IF hs[p].do_negotiated_strings
       THEN NegotiateName(p, "compress_choice", default_compress_name_list,
                          "seed")
     ELSE /\ HsSet(p, [pc |-> "seed", compress_choice |-> zlib])
          /\ UNCHANGED chan
  /\ UNCHANGED <<opts, client_info>>
  /\ UNCHANGED handshake_frame

\* The seed exchange: the server writes its seed, the client reads it; the
\* result is returned.
HsSeed(p) ==
  /\ hs[p].pc = "seed"
  /\ IF p = "server"
       THEN \E seed \in (IF opts[p].checksum_seed # 0 THEN {opts[p].checksum_seed}
                         ELSE RandomSeeds) :
              /\ Send(p, write_int(seed))
              /\ HsSet(p, [pc |-> "done", seed |-> seed,
                           wrote |-> Wrote(p, "seed", write_int(seed))])
     ELSE /\ Len(chan[p]) >= 4
          /\ HsSet(p, [pc |-> "done", seed |-> read_int(SubSeq(chan[p], 1, 4)),
                       reads |-> ReadOf(p, "seed", 4)])
          /\ Recv(p, 4)
  /\ UNCHANGED <<opts, client_info>>
  /\ UNCHANGED handshake_frame

OptionSets ==
  [crtimes : BOOLEAN, inc_recursive : BOOLEAN, compress : BOOLEAN,
   checksum_seed : OptSeeds, checksum_choice : FixedChecksums,
   compress_choice : FixedCompressions]

\* The two sides are started with their own options; the fields only the
\* server reads are drawn once.
HandshakeInit ==
  /\ PipelineIdle
  /\ WireIdle
  /\ TokenIdle
  /\ ChoiceIdle
  /\ FlistIdle
  /\ ExtraIdle
  /\ pc = "handshake"
  /\ \E o \in OptionSets, compress \in BOOLEAN, fixed \in FixedChecksums,
        fixed_compress \in FixedCompressions :
       opts = [p \in Sides |->
                 IF p = "server" THEN o
                 ELSE [o EXCEPT !.compress = compress,
                                !.checksum_choice = fixed,
                                !.compress_choice = fixed_compress]]
  /\ client_info \in ClientInfos
  /\ \E versions \in [Sides -> ProtoVersions] :
       hs = [p \in Sides |->
               [pc |-> "start", local_proto |-> versions[p], remote_proto |-> 0,
                negotiated |-> 0, compat_flags |-> 0,
                do_negotiated_strings |-> FALSE, xfer_flags_as_varint |-> FALSE,
                checksum_choice |-> NoChoice, compress_choice |-> NoChoice,
                seed |-> 0, wrote |-> << >>, reads |-> << >>]]
  /\ chan = [p \in Sides |-> << >>]

HsRunning ==
  {"start", "read_proto", "read_flags", "write_names", "read_checksum",
   "read_compress", "seed"}

\* What the next read of a side waits for: a whole int32, varint or vstring.
HsWaits(p) ==
  CASE hs[p].pc = "read_proto" -> Len(chan[p]) < 4
    [] hs[p].pc = "read_flags" ->
         varint_need(chan[p]) = 0 \/ Len(chan[p]) < varint_need(chan[p])
    [] hs[p].pc = "read_checksum" ->
         /\ opts[p].checksum_choice = NoChoice /\ hs[p].do_negotiated_strings
         /\ vstring_need(chan[p]) = 0 \/ Len(chan[p]) < vstring_need(chan[p])
    [] hs[p].pc = "read_compress" ->
         /\ opts[p].compress /\ opts[p].compress_choice = NoChoice
         /\ hs[p].do_negotiated_strings
         /\ vstring_need(chan[p]) = 0 \/ Len(chan[p]) < vstring_need(chan[p])
    [] hs[p].pc = "seed" -> p = "client" /\ Len(chan[p]) < 4
    [] OTHER -> FALSE

\* A side that raised has left the session and its end of the channel is
\* closed: the read its peer is waiting in finds the end of the stream
\* instead of the bytes it needs and raises.
HsPeerClosed(p) ==
  /\ hs[p].pc \in HsRunning
  /\ hs[Peer(p)].pc \notin HsRunning \cup {"done"}
  /\ HsWaits(p)
  /\ HsSet(p, [pc |-> "EOFError"])
  /\ UNCHANGED <<chan, opts, client_info>>
  /\ UNCHANGED handshake_frame

HsStep(p) ==
  \/ HsPeerClosed(p)
  \/ HsWriteProto(p)
  \/ HsReadProto(p)
  \/ HsReadFlags(p)
  \/ HsWriteNames(p)
  \/ HsChecksum(p)
  \/ HsCompress(p)
  \/ HsSeed(p)

HandshakeNext == \E p \in Sides : HsStep(p)

HandshakeSpec == HandshakeInit /\ [][HandshakeNext]_vars

(***************************************************************************)
(* C8: the two sides of the handshake agree.                               *)
(***************************************************************************)

HsDone == \A p \in Sides : hs[p].pc = "done"

SameOptions ==
  /\ opts["server"] = opts["client"]
  /\ \A p \in Sides : /\ opts[p].checksum_choice = NoChoice
                      /\ opts[p].compress_choice = NoChoice

InRangeVersions ==
  \A p \in Sides : hs[p].local_proto \in MIN_PROTOCOL_VERSION..MAX_PROTOCOL_VERSION

HsResultFields ==
  {"negotiated", "compat_flags", "do_negotiated_strings", "xfer_flags_as_varint",
   "checksum_choice", "compress_choice", "seed"}

HsAgree ==
  /\ \A f \in HsResultFields : hs["server"][f] = hs["client"][f]
  /\ hs["server"].negotiated = Min(hs["server"].local_proto, hs["client"].local_proto)

\* C8: with the same options on both sides, no fixed checksum or compression
\* choice and both versions in 20..40, neither side raises, a side that has
\* not returned is never left with no step to take on either side (each step
\* moves one side forward through its finite sequence of steps, so both
\* return), and once both have returned their results agree field by field
\* with negotiated = min of the two versions.
C8_HandshakeAgrees ==
  SameOptions /\ InRangeVersions =>
    /\ \A p \in Sides : hs[p].pc \in HsRunning \cup {"done"}
    /\ ~HsDone => ENABLED HandshakeNext
    /\ HsDone => HsAgree

\* Both sides returned after negotiating both names from the peer's list, the
\* client with the higher version and the seed drawn by the server.
C8_Witness ==
  /\ HsDone /\ SameOptions /\ InRangeVersions
  /\ hs["client"].local_proto > hs["server"].local_proto
  /\ hs["client"].negotiated >= 30
  /\ hs["client"].do_negotiated_strings
  /\ opts["client"].compress /\ opts["client"].checksum_seed = 0
  /\ hs["client"].checksum_choice = xxh128 /\ hs["client"].compress_choice = zstd
  /\ hs["client"].seed = 2147483647

(***************************************************************************)
(* _choose_from_remote_list on its own: the server's rule and the client's *)
(* rule applied to one pair of preference lists.                           *)
(***************************************************************************)

MaxListLen == 3
NegNames == {md5, md4, sha1}

ChoiceInit ==
  /\ PipelineIdle
  /\ WireIdle
  /\ TokenIdle
  /\ HandshakeIdle
  /\ FlistIdle
  /\ ExtraIdle
  /\ pc = "choose"
  /\ \E client_list \in SeqsUpTo(NegNames, MaxListLen),
        server_list \in SeqsUpTo(NegNames, MaxListLen) :
       neg = [client_list |-> client_list, server_list |-> server_list,
              server_pick |-> NoChoice, client_pick |-> NoChoice]

\* The server chooses from the client's list, the client from the server's.
Choose ==
  /\ pc = "choose"
  /\ LET s == choose_from_remote_list(TRUE, neg.server_list, neg.client_list)
         c == choose_from_remote_list(FALSE, neg.client_list, neg.server_list)
     IN  neg' = [neg EXCEPT
                   !.server_pick = IF s.status = "ok" THEN s.name ELSE s.status,
                   !.client_pick = IF c.status = "ok" THEN c.name ELSE c.status]
  /\ pc' = "chosen"
  /\ UNCHANGED choice_frame

ChoiceNext == Choose

ChoiceSpec == ChoiceInit /\ [][ChoiceNext]_vars

\* C9: for any client list and server list with a name in common, the
\* server's rule and the client's rule select the same name.
C9_ChoiceConverges ==
  pc = "chosen" /\ Range(neg.client_list) \cap Range(neg.server_list) # {} =>
    /\ neg.server_pick \in Range(neg.client_list) \cap Range(neg.server_list)
    /\ neg.client_pick = neg.server_pick

(***************************************************************************)
(* 64-bit integers on the wire.  The values of the model fit 32 bits; a    *)
(* decoded value that does not is Huge, which no field of an entry equals. *)
(***************************************************************************)

Huge == 2147483647

\* struct.pack('<q', value)
write_long(value) ==
  write_int(value) \o (IF value < 0 THEN <<255, 255, 255, 255>> ELSE <<0, 0, 0, 0>>)

\* int.from_bytes(b[:8], 'little', signed=True)
from_le8(b) ==
  IF SubSeq(b, 5, 8) = <<0, 0, 0, 0>> /\ b[4] < 128 THEN read_int(SubSeq(b, 1, 4))
  ELSE IF SubSeq(b, 5, 8) = <<255, 255, 255, 255>> /\ b[4] >= 128
    THEN read_int(SubSeq(b, 1, 4))
  ELSE Huge

\* The count of bytes write_varlong keeps.
RECURSIVE varlong_cnt(_, _, _)
varlong_cnt(b, cnt, min_bytes) ==
  IF cnt > min_bytes /\ b[cnt] = 0 THEN varlong_cnt(b, cnt - 1, min_bytes) ELSE cnt

\* ProtocolIO.write_varlong after struct.pack('<q', value): the bytes
\* written.  b is b[1:9] of the source, the eight bytes of the value.
write_varlong_bytes(b, min_bytes) ==
  LET cnt == varlong_cnt(b, 8, min_bytes)
      bit == Shl1(7 - cnt + min_bytes)
  IN  IF b[cnt] >= bit
        THEN <<256 - bit>> \o SubSeq(b, 1, cnt)
      ELSE IF cnt > min_bytes
        THEN <<b[cnt] + (256 - 2 * bit)>> \o SubSeq(b, 1, cnt - 1)
      ELSE <<b[cnt]>> \o SubSeq(b, 1, cnt - 1)

\* ProtocolIO.write_varlong: the bytes written.
write_varlong(value, min_bytes) == write_varlong_bytes(write_long(value), min_bytes)

write_shortint(value) == <<value % 256, (value \div 256) % 256>>

write_varint30(value, protocol_version) ==
  IF protocol_version < 30 THEN write_int(value) ELSE write_varint(value)

write_varlong30(value, min_bytes, protocol_version) ==
  IF protocol_version < 30 THEN write_long(value) ELSE write_varlong(value, min_bytes)

(***************************************************************************)
(* Reading from a byte stream that ends: a reader is the bytes left and    *)
(* the error raised so far; each read gives the reader after it and the    *)
(* value read.  A read past the end raises EOFError.                       *)
(***************************************************************************)

Reader(buf) == [buf |-> buf, status |-> "ok"]

Got(rd, n, value) == [buf |-> Drop(rd.buf, n), status |-> "ok", value |-> value]
Raised(rd, error) ==
  [buf |-> rd.buf, status |-> IF rd.status # "ok" THEN rd.status ELSE error,
   value |-> 0]
Skip(rd, value) == [buf |-> rd.buf, status |-> rd.status, value |-> value]
Has(rd, n) == rd.status = "ok" /\ Len(rd.buf) >= n

rd_byte(rd) == IF Has(rd, 1) THEN Got(rd, 1, rd.buf[1]) ELSE Raised(rd, "EOFError")

rd_int(rd) ==
  IF Has(rd, 4) THEN Got(rd, 4, read_int(SubSeq(rd.buf, 1, 4)))
  ELSE Raised(rd, "EOFError")

rd_long(rd) ==
  IF Has(rd, 8) THEN Got(rd, 8, from_le8(SubSeq(rd.buf, 1, 8)))
  ELSE Raised(rd, "EOFError")

rd_bytes(rd, n) ==
  IF n <= 0 THEN Skip(rd, << >>)
  ELSE IF Has(rd, n) THEN Got(rd, n, SubSeq(rd.buf, 1, n))
  ELSE [Raised(rd, "EOFError") EXCEPT !.value = << >>]

rd_varint(rd) ==
  IF ~Has(rd, 1) THEN Raised(rd, "EOFError")
  ELSE IF ~Has(rd, varint_need(rd.buf)) THEN Raised(rd, "EOFError")
  ELSE LET r == read_varint(rd.buf)
       IN  IF r.status = "ok" THEN Got(rd, r.used, r.value)
           ELSE Raised(rd, r.status)

rd_varint30(rd, protocol_version) ==
  IF protocol_version < 30 THEN rd_int(rd) ELSE rd_varint(rd)

\* ProtocolIO.read_varlong before int.from_bytes: the value read is buf[:8]
\* of the source, the eight bytes of the value.
rd_varlong_bytes(rd, min_bytes) ==
  IF ~Has(rd, min_bytes) THEN Raised(rd, "EOFError")
  ELSE LET b2 == SubSeq(rd.buf, 1, min_bytes)
           extra == INT_BYTE_EXTRA[b2[1] \div 4]
           bit == Shl1(8 - extra)
           tail == SubSeq(rd.buf, min_bytes + 1, min_bytes + extra)
           filled == SubSeq(b2, 2, min_bytes) \o tail
                     \o <<IF extra > 0 THEN b2[1] % bit ELSE b2[1]>>
                     \o <<0, 0, 0, 0, 0, 0, 0, 0>>
       IN  IF extra > 0 /\ min_bytes + extra > 9 THEN Raised(rd, "ProtocolError")
           ELSE IF ~Has(rd, min_bytes + extra) THEN Raised(rd, "EOFError")
           ELSE Got(rd, min_bytes + extra, SubSeq(filled, 1, 8))

\* ProtocolIO.read_varlong.
rd_varlong(rd, min_bytes) ==
  With(rd_varlong_bytes(rd, min_bytes), LAMBDA r :
    IF r.status = "ok" THEN [r EXCEPT !.value = from_le8(@)] ELSE r)

rd_varlong30(rd, min_bytes, protocol_version) ==
  IF protocol_version < 30 THEN rd_long(rd) ELSE rd_varlong(rd, min_bytes)

(***************************************************************************)
(* The file list on the wire: _send_file_entry_wire, _recv_file_entry_wire *)
(* and the two loops around them.                                          *)
(***************************************************************************)

XMIT_TOP_DIR == 1
XMIT_SAME_MODE == 2
XMIT_SAME_RDEV_pre28 == 4
XMIT_EXTENDED_FLAGS == 4
XMIT_SAME_UID == 8
XMIT_SAME_GID == 16
XMIT_SAME_NAME == 32
XMIT_LONG_NAME == 64
XMIT_SAME_TIME == 128
XMIT_SAME_RDEV_MAJOR == 256
XMIT_USER_NAME_FOLLOWS == 1024
XMIT_RDEV_MINOR_8_pre30 == 2048
XMIT_GROUP_NAME_FOLLOWS == 2048
XMIT_IO_ERROR_ENDLIST == 4096
XMIT_MOD_NSEC == 8192
XMIT_SAME_ATIME == 16384
XMIT_CRTIME_EQ_MTIME == 131072
FLAG_TOP_DIR == 1

S_IFREG == 32768
S_IFDIR == 16384
S_IFLNK == 40960
S_IFCHR == 8192
S_IFBLK == 24576
S_IFIFO == 4096
S_IFSOCK == 49152

\* x & bit, for a single bit, as a truth value
HasBit(x, bit) == (x \div bit) % 2 = 1
\* x | bit
SetBit(x, bit) == IF HasBit(x, bit) THEN x ELSE x + bit

FileType(mode) == ((mode \div 4096) % 16) * 4096
S_ISDIR(mode) == FileType(mode) = S_IFDIR
S_ISLNK(mode) == FileType(mode) = S_IFLNK
IS_DEVICE(mode) == FileType(mode) = S_IFCHR \/ FileType(mode) = S_IFBLK
IS_SPECIAL(mode) == FileType(mode) = S_IFIFO \/ FileType(mode) = S_IFSOCK

\* (mode & ~0o170000) | S_IFLNK for a link: the mode itself.
to_wire_mode(mode) ==
  IF S_ISLNK(mode) THEN (mode - FileType(mode)) + S_IFLNK ELSE mode
from_wire_mode(mode) ==
  IF FileType(mode) = S_IFLNK THEN (mode - FileType(mode)) + S_IFLNK ELSE mode

\* os.major, os.minor and os.makedev for device numbers below 2^31, with the
\* fallbacks the source takes when they raise.
dev_major(dev) == (dev \div 256) % 4096
dev_minor(dev) ==
  IF dev >= 0 THEN (dev \div 1048576) * 256 + (dev % 256) ELSE dev % 256
make_dev(major, minor) ==
  IF major \in 0..4095 /\ minor \in 0..524287
    THEN major * 256 + (minor \div 256) * 1048576 + (minor % 256)
  ELSE Huge

\* No link target (None), and a link target.
NoLink == << >>
Link(target) == <<target>>

\* FileEntry.__init__
FileEntry(filename, mode, size, mtime, mtime_nsec, atime, crtime, uid, gid, rdev, link_target) ==
  [filename |-> filename, mode |-> mode, size |-> size, mtime |-> mtime,
   mtime_nsec |-> mtime_nsec, atime |-> atime, crtime |-> crtime,
   uid |-> uid, gid |-> gid, rdev |-> rdev,
   is_dir |-> S_ISDIR(mode), is_link |-> S_ISLNK(mode),
   link_target |-> link_target,
   flags |-> IF S_ISDIR(mode) THEN 2
             ELSE IF S_ISLNK(mode) THEN 4
             ELSE IF FileType(mode) = S_IFCHR THEN 8
             ELSE IF FileType(mode) = S_IFBLK THEN 16
             ELSE IF FileType(mode) = S_IFIFO THEN 32
             ELSE 0]

\* _FlistXferState()
FlistXferState ==
  [lastname |-> << >>, mode |-> 0, uid |-> 0, gid |-> 0, modtime |-> 0,
   atime |-> 0, crtime |-> 0, rdev |-> 0, rdev_major |-> 0]

RECURSIVE common_prefix_len_upto_255(_, _)
common_prefix_len_upto_255(a, b) ==
  IF a = << >> \/ b = << >> \/ Head(a) # Head(b) THEN 0
  ELSE Min(255, 1 + common_prefix_len_upto_255(Tail(a), Tail(b)))

\* write_byte: bytes([value]) raises ValueError outside 0..255.
ByteOk(value) == value \in 0..255

\* The sum of the flag bits whose conditions hold.
RECURSIVE FlagSum(_)
FlagSum(pairs) ==
  IF pairs = << >> THEN 0
  ELSE (IF Head(pairs)[1] THEN Head(pairs)[2] ELSE 0) + FlagSum(Tail(pairs))

\* The xflags _send_file_entry_wire computes before it writes them.
entry_xflags(entry, o, state, protocol_version) ==
  LET mode == entry.mode
      devices == o.preserve_devices /\ IS_DEVICE(mode)
      specials == ~devices /\ o.preserve_specials /\ IS_SPECIAL(mode)
                  /\ protocol_version < 31
      l1 == common_prefix_len_upto_255(state.lastname, entry.filename)
      l2 == Len(entry.filename) - l1
  IN  FlagSum(<<
        <<entry.is_dir /\ HasBit(entry.flags, FLAG_TOP_DIR), XMIT_TOP_DIR>>,
        <<mode = state.mode, XMIT_SAME_MODE>>,
        <<~o.preserve_owner \/ (entry.uid = state.uid /\ state.lastname # << >>),
          XMIT_SAME_UID>>,
        <<~o.preserve_group \/ (entry.gid = state.gid /\ state.lastname # << >>),
          XMIT_SAME_GID>>,
        <<entry.mtime = state.modtime, XMIT_SAME_TIME>>,
        <<o.atimes /\ ~entry.is_dir /\ entry.atime = state.atime, XMIT_SAME_ATIME>>,
        <<o.crtimes /\ entry.crtime = entry.mtime, XMIT_CRTIME_EQ_MTIME>>,
        <<protocol_version >= 31 /\ entry.mtime_nsec # 0, XMIT_MOD_NSEC>>,
        <<protocol_version < 28
          /\ ((devices /\ entry.rdev = state.rdev) \/ specials),
          XMIT_SAME_RDEV_pre28>>,
        <<protocol_version >= 28
          /\ ((devices /\ dev_major(entry.rdev) = state.rdev_major) \/ specials),
          XMIT_SAME_RDEV_MAJOR>>,
        <<protocol_version >= 28 /\ protocol_version < 30
          /\ ((devices /\ dev_minor(entry.rdev) <= 255) \/ specials),
          XMIT_RDEV_MINOR_8_pre30>>,
        <<l1 > 0, XMIT_SAME_NAME>>,
        <<l2 > 255, XMIT_LONG_NAME>> >>)

\* The sender's state after an entry.
entry_state(entry, o, state, protocol_version) ==
  LET mode == entry.mode
      devices == o.preserve_devices /\ IS_DEVICE(mode)
      specials == ~devices /\ o.preserve_specials /\ IS_SPECIAL(mode)
                  /\ protocol_version < 31
  IN  [lastname |-> entry.filename,
       mode |-> mode,
       uid |-> IF ~o.preserve_owner THEN state.uid ELSE entry.uid,
       gid |-> IF ~o.preserve_group THEN state.gid ELSE entry.gid,
       modtime |-> entry.mtime,
       atime |-> IF o.atimes /\ ~entry.is_dir THEN entry.atime ELSE state.atime,
       crtime |-> IF o.crtimes THEN entry.crtime ELSE state.crtime,
       rdev |-> IF devices THEN entry.rdev
                ELSE IF specials /\ protocol_version >= 28
                  THEN make_dev(state.rdev_major, 0)
                ELSE state.rdev,
       rdev_major |-> IF devices /\ protocol_version >= 28
                        THEN dev_major(entry.rdev)
                      ELSE state.rdev_major]

\* The flags word as written: the xflags the rest of the function tests, the
\* bytes, and whether write_byte accepted them.
entry_flag_bytes(xflags, is_dir, protocol_version, xfer_flags_as_varint) ==
  IF xfer_flags_as_varint
    THEN [xflags |-> xflags, ok |-> TRUE,
          bytes |-> write_varint(IF xflags # 0 THEN xflags ELSE XMIT_EXTENDED_FLAGS)]
  ELSE IF protocol_version >= 28
    THEN LET x1 == IF xflags = 0 /\ ~is_dir THEN XMIT_TOP_DIR ELSE xflags
         IN  IF (x1 \div 256) % 256 # 0 \/ x1 = 0
               THEN [xflags |-> SetBit(x1, XMIT_EXTENDED_FLAGS), ok |-> TRUE,
                     bytes |-> write_shortint(SetBit(x1, XMIT_EXTENDED_FLAGS))]
             ELSE [xflags |-> x1, ok |-> ByteOk(x1), bytes |-> <<x1 % 256>>]
  ELSE LET x1 == IF xflags % 256 = 0
                   THEN SetBit(xflags, IF is_dir THEN XMIT_LONG_NAME
                                       ELSE XMIT_TOP_DIR)
                 ELSE xflags
       IN  [xflags |-> x1, ok |-> ByteOk(x1), bytes |-> <<x1 % 256>>]

\* _send_file_entry_wire: the bytes written, the state left, and the error
\* raised.  A link entry without a target is one whose file os.readlink does
\* not find: the target sent is the empty string.
send_file_entry_wire(entry, o, state, protocol_version, xfer_flags_as_varint) ==
  LET f == entry_flag_bytes(entry_xflags(entry, o, state, protocol_version),
                            entry.is_dir, protocol_version, xfer_flags_as_varint)
      xflags == f.xflags
      next == entry_state(entry, o, state, protocol_version)
      mode == entry.mode
      l1 == common_prefix_len_upto_255(state.lastname, entry.filename)
      l2 == Len(entry.filename) - l1
      target == IF entry.link_target = NoLink THEN << >> ELSE entry.link_target[1]
      name_bytes ==
        (IF HasBit(xflags, XMIT_SAME_NAME) THEN <<l1>> ELSE << >>)
        \o (IF HasBit(xflags, XMIT_LONG_NAME)
              THEN write_varint30(l2, protocol_version) ELSE <<l2>>)
        \o Drop(entry.filename, l1)
      time_bytes ==
        (IF ~HasBit(xflags, XMIT_SAME_TIME)
           THEN IF protocol_version >= 30 THEN write_varlong(next.modtime, 4)
                ELSE write_int(next.modtime)
         ELSE << >>)
        \o (IF HasBit(xflags, XMIT_MOD_NSEC) THEN write_varint(entry.mtime_nsec)
            ELSE << >>)
        \o (IF o.crtimes /\ ~HasBit(xflags, XMIT_CRTIME_EQ_MTIME)
              THEN write_varlong(next.crtime, 4) ELSE << >>)
      mode_bytes ==
        (IF ~HasBit(xflags, XMIT_SAME_MODE) THEN write_int(to_wire_mode(mode))
         ELSE << >>)
        \o (IF o.atimes /\ ~entry.is_dir /\ ~HasBit(xflags, XMIT_SAME_ATIME)
              THEN write_varlong(next.atime, 4) ELSE << >>)
      id_bytes ==
        (IF o.preserve_owner /\ ~HasBit(xflags, XMIT_SAME_UID)
           THEN IF protocol_version < 30 THEN write_int(next.uid)
                ELSE write_varint(next.uid)
         ELSE << >>)
        \o (IF o.preserve_group /\ ~HasBit(xflags, XMIT_SAME_GID)
              THEN IF protocol_version < 30 THEN write_int(next.gid)
                   ELSE write_varint(next.gid)
            ELSE << >>)
      rdev_bytes ==
        IF (o.preserve_devices /\ IS_DEVICE(mode))
           \/ (o.preserve_specials /\ IS_SPECIAL(mode) /\ protocol_version < 31)
          THEN IF protocol_version < 28
                 THEN (IF ~HasBit(xflags, XMIT_SAME_RDEV_pre28)
                         THEN write_int(next.rdev) ELSE << >>)
               ELSE (IF ~HasBit(xflags, XMIT_SAME_RDEV_MAJOR)
                       THEN write_varint30(dev_major(next.rdev), protocol_version)
                     ELSE << >>)
                    \o (IF protocol_version >= 30
                          THEN write_varint(dev_minor(next.rdev))
                        ELSE IF HasBit(xflags, XMIT_RDEV_MINOR_8_pre30)
                          THEN <<dev_minor(next.rdev) % 256>>
                        ELSE write_int(dev_minor(next.rdev)))
        ELSE << >>
      link_bytes ==
        IF o.preserve_links /\ entry.is_link
          THEN write_varint30(Len(target), protocol_version) \o target
        ELSE << >>
  IN  IF ~f.ok THEN [status |-> "ValueError", bytes |-> << >>, state |-> next]
      ELSE [status |-> "ok",
            bytes |-> f.bytes \o name_bytes
                      \o write_varlong30(entry.size, 3, protocol_version)
                      \o time_bytes \o mode_bytes \o id_bytes \o rdev_bytes
                      \o link_bytes,
            state |-> next]

\* send_file_list_wire: every entry, then the end marker.
RECURSIVE send_entries(_, _, _, _, _)
send_entries(entries, o, state, protocol_version, xfer_flags_as_varint) ==
  IF entries = << >>
    THEN [status |-> "ok",
          bytes |-> IF xfer_flags_as_varint
                      THEN write_varint(0) \o write_varint(0) ELSE <<0>>]
  ELSE With(send_file_entry_wire(Head(entries), o, state, protocol_version,
                                 xfer_flags_as_varint),
            LAMBDA e :
              IF e.status # "ok" THEN [status |-> e.status, bytes |-> << >>]
              ELSE With(send_entries(Tail(entries), o, e.state, protocol_version,
                                     xfer_flags_as_varint),
                        LAMBDA rest :
                          IF rest.status # "ok" THEN rest
                          ELSE [status |-> "ok", bytes |-> e.bytes \o rest.bytes]))

send_file_list_wire(entries, o, protocol_version, xfer_flags_as_varint) ==
  send_entries(entries, o, FlistXferState, protocol_version, xfer_flags_as_varint)

\* _recv_file_entry_wire reads one field after the other.  The fields read
\* so far travel with the reader: f holds them, and each step below is one
\* stretch of the function, from the reader it finds to the reader it leaves.
RecvStart(rd) ==
  [buf |-> rd.buf, status |-> rd.status,
   f |-> [filename |-> << >>, size |-> 0, mtime |-> 0, mtime_nsec |-> 0,
          crtime |-> 0, mode |-> 0, atime |-> 0, uid |-> 0, gid |-> 0,
          rdev |-> 0, rdev_major |-> 0, link_target |-> NoLink]]

\* The reader after the read r, with the value read as the named field.
Put(c, field, r) ==
  [buf |-> r.buf, status |-> r.status, f |-> [c.f EXCEPT ![field] = r.value]]

\* l1, l2, their checks, the suffix and the name
recv_name(c, state, protocol_version, xflags) ==
  LET r_l1 == IF HasBit(xflags, XMIT_SAME_NAME) THEN rd_byte(c) ELSE Skip(c, 0)
      r_l2 == IF HasBit(xflags, XMIT_LONG_NAME)
                THEN rd_varint30(r_l1, protocol_version) ELSE rd_byte(r_l1)
      r_chk == IF r_l2.status = "ok"
                  /\ (r_l1.value > Len(state.lastname) \/ r_l2.value < 0)
                 THEN Raised(r_l2, "ProtocolError") ELSE r_l2
      r_name == rd_bytes(r_chk, r_chk.value)
  IN  Put(c, "filename",
          [r_name EXCEPT !.value =
             SubSeq(state.lastname, 1, Min(r_l1.value, Len(state.lastname))) \o @])

recv_size(c, protocol_version) ==
  Put(c, "size", rd_varlong30(c, 3, protocol_version))

recv_modtime(c, state, protocol_version, xflags) ==
  Put(c, "mtime", IF HasBit(xflags, XMIT_SAME_TIME) THEN Skip(c, state.modtime)
                  ELSE IF protocol_version >= 30 THEN rd_varlong(c, 4)
                  ELSE rd_int(c))

recv_nsec(c, xflags) ==
  Put(c, "mtime_nsec", IF HasBit(xflags, XMIT_MOD_NSEC) THEN rd_varint(c)
                       ELSE Skip(c, 0))

recv_crtime(c, o, xflags) ==
  Put(c, "crtime", IF ~o.crtimes THEN Skip(c, 0)
                   ELSE IF HasBit(xflags, XMIT_CRTIME_EQ_MTIME) THEN Skip(c, c.f.mtime)
                   ELSE rd_varlong(c, 4))

recv_mode(c, state, xflags) ==
  Put(c, "mode", IF HasBit(xflags, XMIT_SAME_MODE) THEN Skip(c, state.mode)
                 ELSE [rd_int(c) EXCEPT !.value = from_wire_mode(@)])

recv_atime(c, o, state, xflags) ==
  Put(c, "atime", IF ~(o.atimes /\ ~S_ISDIR(c.f.mode)) THEN Skip(c, 0)
                  ELSE IF HasBit(xflags, XMIT_SAME_ATIME) THEN Skip(c, state.atime)
                  ELSE rd_varlong(c, 4))

\* The uid or gid, and the name that may follow it and is dropped.
recv_id(c, field, preserve, last_id, protocol_version, same, name_follows) ==
  LET r_id == IF ~preserve THEN Skip(c, 0)
              ELSE IF same THEN Skip(c, last_id)
              ELSE IF protocol_version < 30 THEN rd_int(c)
              ELSE rd_varint(c)
      r_len == IF preserve /\ ~same /\ protocol_version >= 30 /\ name_follows
                 THEN rd_byte(r_id) ELSE Skip(r_id, 0)
      r_name == rd_bytes(r_len, r_len.value)
  IN  Put(c, field, [r_name EXCEPT !.value = r_id.value])

recv_uid(c, o, state, protocol_version, xflags) ==
  recv_id(c, "uid", o.preserve_owner, state.uid, protocol_version,
          HasBit(xflags, XMIT_SAME_UID), HasBit(xflags, XMIT_USER_NAME_FOLLOWS))

recv_gid(c, o, state, protocol_version, xflags) ==
  recv_id(c, "gid", o.preserve_group, state.gid, protocol_version,
          HasBit(xflags, XMIT_SAME_GID), HasBit(xflags, XMIT_GROUP_NAME_FOLLOWS))

\* "if (preserve_devices and IS_DEVICE(mode)) or (preserve_specials and ...)"
has_rdev(mode, o, protocol_version) ==
  (o.preserve_devices /\ IS_DEVICE(mode))
  \/ (o.preserve_specials /\ IS_SPECIAL(mode) /\ protocol_version < 31)

recv_rdev_major(c, o, state, protocol_version, xflags) ==
  Put(c, "rdev_major",
      IF ~has_rdev(c.f.mode, o, protocol_version) \/ protocol_version < 28
           \/ HasBit(xflags, XMIT_SAME_RDEV_MAJOR)
        THEN Skip(c, state.rdev_major)
      ELSE rd_varint30(c, protocol_version))

recv_rdev(c, o, state, protocol_version, xflags) ==
  Put(c, "rdev",
      IF ~has_rdev(c.f.mode, o, protocol_version) THEN Skip(c, 0)
      ELSE IF protocol_version < 28
        THEN IF HasBit(xflags, XMIT_SAME_RDEV_pre28) THEN Skip(c, state.rdev)
             ELSE rd_int(c)
      ELSE [(IF protocol_version >= 30 THEN rd_varint(c)
             ELSE IF HasBit(xflags, XMIT_RDEV_MINOR_8_pre30) THEN rd_byte(c)
             ELSE rd_int(c))
            EXCEPT !.value = make_dev(c.f.rdev_major, @)])

recv_link(c, o, protocol_version) ==
  LET has_link == o.preserve_links /\ S_ISLNK(c.f.mode)
      r_len == IF has_link THEN rd_varint30(c, protocol_version) ELSE Skip(c, 0)
      r_link == rd_bytes(r_len, r_len.value)
  IN  Put(c, "link_target",
          [r_link EXCEPT !.value = IF has_link THEN Link(@) ELSE NoLink])

\* The reads of _recv_file_entry_wire in their order.
recv_fields(rd, o, state, protocol_version, xflags) ==
  recv_link(
    recv_rdev(
      recv_rdev_major(
        recv_gid(
          recv_uid(
            recv_atime(
              recv_mode(
                recv_crtime(
                  recv_nsec(
                    recv_modtime(
                      recv_size(
                        recv_name(RecvStart(rd), state, protocol_version, xflags),
                        protocol_version),
                      state, protocol_version, xflags),
                    xflags),
                  o, xflags),
                state, xflags),
              o, state, xflags),
            o, state, protocol_version, xflags),
          o, state, protocol_version, xflags),
        o, state, protocol_version, xflags),
      o, state, protocol_version, xflags),
    o, protocol_version)

\* The entry returned and the state left, from the fields read.
recv_entry(c, o, state, protocol_version, xflags) ==
  [buf |-> c.buf, status |-> c.status,
   entry |-> FileEntry(c.f.filename, c.f.mode, c.f.size, c.f.mtime,
                       c.f.mtime_nsec, c.f.atime, c.f.crtime, c.f.uid, c.f.gid,
                       c.f.rdev, c.f.link_target),
   state |-> [lastname |-> c.f.filename,
              mode |-> c.f.mode,
              uid |-> IF o.preserve_owner /\ ~HasBit(xflags, XMIT_SAME_UID)
                        THEN c.f.uid ELSE state.uid,
              gid |-> IF o.preserve_group /\ ~HasBit(xflags, XMIT_SAME_GID)
                        THEN c.f.gid ELSE state.gid,
              modtime |-> c.f.mtime,
              atime |-> IF o.atimes /\ ~S_ISDIR(c.f.mode) THEN c.f.atime
                        ELSE state.atime,
              crtime |-> IF o.crtimes THEN c.f.crtime ELSE state.crtime,
              rdev |-> IF has_rdev(c.f.mode, o, protocol_version) THEN c.f.rdev
                       ELSE state.rdev,
              rdev_major |-> c.f.rdev_major]]

\* _recv_file_entry_wire: the reader and the state after the entry, and the
\* entry.
recv_file_entry_wire(rd, o, state, protocol_version, xflags) ==
  recv_entry(recv_fields(rd, o, state, protocol_version, xflags), o, state,
             protocol_version, xflags)

\* The flags word recv_file_list_wire reads ahead of an entry: the reader
\* after it, the flags, and whether the list ends here.
recv_flags(rd, protocol_version, xfer_flags_as_varint) ==
  IF xfer_flags_as_varint
    THEN LET r == rd_varint(rd)
         IN  IF r.status = "ok" /\ r.value = 0
               THEN [rd_varint(r) EXCEPT !.value = 0] @@ [last |-> TRUE]
             ELSE r @@ [last |-> FALSE]
  ELSE LET r == rd_byte(rd)
           hi == IF r.status = "ok" /\ r.value # 0 /\ protocol_version >= 28
                    /\ HasBit(r.value, XMIT_EXTENDED_FLAGS)
                   THEN rd_byte(r) ELSE Skip(r, 0)
           flags == r.value + 256 * hi.value
       IN  IF r.status = "ok" /\ r.value = 0 THEN r @@ [last |-> TRUE]
           ELSE IF hi.status = "ok" /\ protocol_version >= 31
                   /\ flags = XMIT_EXTENDED_FLAGS + XMIT_IO_ERROR_ENDLIST
             THEN [rd_varint(hi) EXCEPT !.value = flags] @@ [last |-> TRUE]
           ELSE [hi EXCEPT !.value = flags] @@ [last |-> FALSE]

\* recv_file_list_wire: the loop, with the entries received so far.
RECURSIVE recv_entries(_, _, _, _, _, _)
recv_entries(rd, o, state, protocol_version, xfer_flags_as_varint, entries) ==
  With(recv_flags(rd, protocol_version, xfer_flags_as_varint),
       LAMBDA f :
         IF f.status # "ok" THEN [status |-> f.status, entries |-> entries]
         ELSE IF f.last THEN [status |-> "ok", entries |-> entries]
         ELSE With(recv_file_entry_wire(Reader(f.buf), o, state, protocol_version,
                                        f.value),
                   LAMBDA e :
                     IF e.status # "ok"
                       THEN [status |-> e.status, entries |-> entries]
                     ELSE recv_entries(Reader(e.buf), o, e.state, protocol_version,
                                       xfer_flags_as_varint,
                                       Append(entries, e.entry))))

recv_file_list_wire(buf, o, protocol_version, xfer_flags_as_varint) ==
  recv_entries(Reader(buf), o, FlistXferState, protocol_version,
               xfer_flags_as_varint, << >>)

(***************************************************************************)
(* file_list_roundtrip_over_wire: a list of entries sent into a file and   *)
(* received from it, with the same options, protocol version and flags     *)
(* mode on both sides.                                                     *)
(***************************************************************************)

MaxEntries == 2

FlistVersions == {30, 31}

\* Regular file, directory, symbolic link, character device, FIFO.
FlistModes == {S_IFREG + 420, S_IFDIR + 493, S_IFLNK + 511, S_IFCHR + 438,
               S_IFIFO + 420}

\* Names with and without a common prefix, sizes, times and owners: equal to
\* the previous entry's or to the initial state's, or not.
FlistProfiles ==
  {[filename |-> <<97>>, size |-> 0, mtime |-> 0, mtime_nsec |-> 0,
    atime |-> 0, crtime |-> 0, uid |-> 0, gid |-> 0],
   [filename |-> <<97, 98>>, size |-> 300, mtime |-> 7, mtime_nsec |-> 3,
    atime |-> 9, crtime |-> 7, uid |-> 5, gid |-> 6],
   [filename |-> <<98>>, size |-> 300, mtime |-> -1, mtime_nsec |-> 0,
    atime |-> 9, crtime |-> 9, uid |-> 5, gid |-> 0]}

\* A device has a device number and a link a target, as FileEntry.from_stat
\* fills them in.
FlistEntries ==
  {FileEntry(p.filename, mode, p.size, p.mtime, p.mtime_nsec, p.atime, p.crtime,
             p.uid, p.gid,
             IF IS_DEVICE(mode) THEN make_dev(3, 5) ELSE 0,
             IF S_ISLNK(mode) THEN Link(<<116>>) ELSE NoLink) :
     p \in FlistProfiles, mode \in FlistModes}

FlistOptions ==
  [preserve_owner : BOOLEAN, preserve_group : BOOLEAN, preserve_links : BOOLEAN,
   preserve_devices : BOOLEAN, preserve_specials : BOOLEAN, atimes : BOOLEAN,
   crtimes : BOOLEAN]

FlistInit ==
  /\ PipelineIdle
  /\ WireIdle
  /\ TokenIdle
  /\ HandshakeIdle
  /\ ChoiceIdle
  /\ ExtraIdle
  /\ pc = "flist_send"
  /\ \E entries \in SeqsUpTo(FlistEntries, MaxEntries), o \in FlistOptions,
        protocol_version \in FlistVersions, xfer_flags_as_varint \in BOOLEAN :
       fl = [entries |-> entries, opts |-> o,
             protocol_version |-> protocol_version,
             xfer_flags_as_varint |-> xfer_flags_as_varint, wire |-> << >>,
             send_status |-> "none", received |-> << >>, recv_status |-> "none"]

\* send_file_list_wire into the file; an error it raises ends the call.
SendFileListWire ==
  /\ pc = "flist_send"
  /\ With(send_file_list_wire(fl.entries, fl.opts, fl.protocol_version,
                              fl.xfer_flags_as_varint),
          LAMBDA sent :
            /\ fl' = [fl EXCEPT !.wire = sent.bytes, !.send_status = sent.status]
            /\ pc' = IF sent.status = "ok" THEN "flist_recv" ELSE "flist_done")
  /\ UNCHANGED flist_frame

\* recv_file_list_wire from the start of the file.
RecvFileListWire ==
  /\ pc = "flist_recv"
  /\ With(recv_file_list_wire(fl.wire, fl.opts, fl.protocol_version,
                              fl.xfer_flags_as_varint),
          LAMBDA got :
            fl' = [fl EXCEPT !.received = got.entries, !.recv_status = got.status])
  /\ pc' = "flist_done"
  /\ UNCHANGED flist_frame

FlistNext == SendFileListWire \/ RecvFileListWire

FlistSpec == FlistInit /\ [][FlistNext]_vars

EntryFields ==
  {"filename", "size", "mtime", "mtime_nsec", "mode", "uid", "gid", "rdev",
   "link_target", "atime", "crtime"}

\* C10: for every protocol version >= 30, every combination of the options
\* and either way of sending the flags, the entries received equal the
\* entries sent, field by field.
C10_FileEntryRoundTrip ==
  pc = "flist_done" /\ fl.protocol_version >= 30 =>
    /\ fl.send_status = "ok" /\ fl.recv_status = "ok"
    /\ Len(fl.received) = Len(fl.entries)
    /\ \A i \in 1..Len(fl.entries) : \A f \in EntryFields :
         fl.received[i][f] = fl.entries[i][f]

(***************************************************************************)
(* The multiplexed channel.  A frame can carry up to 2^24 - 1 bytes and    *)
(* the input buffer of a ProtocolIO holds 65536, so the byte streams of    *)
(* this part are written as runs: <<b, n>> is n bytes of value b.          *)
(***************************************************************************)

MPLEX_BASE == 7
MPLEX_MAX_PAYLOAD == 16777215
MSG_DATA == 0
MSG_EOF == 1
MSG_INFO == 3
\* IOBuffer(65536): in_buffer.size and out_buffer.size
buffer_size == 65536

Run(b, n) == <<b, n>>
\* The runs of a byte string given byte by byte.
Runs(bytes) == [i \in 1..Len(bytes) |-> Run(bytes[i], 1)]

RECURSIVE RLen(_)
RLen(r) == IF r = << >> THEN 0 ELSE Head(r)[2] + RLen(Tail(r))

\* r[:n] and r[n:]
RECURSIVE RTake(_, _)
RTake(r, n) ==
  IF n <= 0 \/ r = << >> THEN << >>
  ELSE IF Head(r)[2] <= n THEN <<Head(r)>> \o RTake(Tail(r), n - Head(r)[2])
  ELSE <<Run(Head(r)[1], n)>>

RECURSIVE RDrop(_, _)
RDrop(r, n) ==
  IF n <= 0 \/ r = << >> THEN r
  ELSE IF Head(r)[2] <= n THEN RDrop(Tail(r), n - Head(r)[2])
  ELSE <<Run(Head(r)[1], Head(r)[2] - n)>> \o Tail(r)

\* One way of writing each byte string: no empty run, no two neighbours of
\* the same byte.
RECURSIVE RNorm(_)
RNorm(r) ==
  IF r = << >> THEN << >>
  ELSE IF Head(r)[2] = 0 THEN RNorm(Tail(r))
  ELSE IF Len(r) >= 2 /\ r[2][1] = Head(r)[1]
    THEN RNorm(<<Run(Head(r)[1], Head(r)[2] + r[2][2])>> \o Tail(Tail(r)))
  ELSE <<Head(r)>> \o RNorm(Tail(r))

\* The bytes of a short run string, one by one.
RECURSIVE RBytes(_)
RBytes(r) ==
  IF r = << >> THEN << >>
  ELSE IF Head(r)[2] = 0 THEN RBytes(Tail(r))
  ELSE <<Head(r)[1]>> \o RBytes(RDrop(r, 1))

\* a is the start of b
RIsPrefix(a, b) == RLen(a) <= RLen(b) /\ RNorm(RTake(b, RLen(a))) = RNorm(a)

\* x | y for two bytes
RECURSIVE BitOr(_, _)
BitOr(x, y) ==
  IF x = 0 THEN y ELSE IF y = 0 THEN x
  ELSE (IF x % 2 = 1 \/ y % 2 = 1 THEN 1 ELSE 0) + 2 * BitOr(x \div 2, y \div 2)

\* A frame as it arrives and as recv_msg returns it.
Frame(tag, payload) == [tag |-> tag, payload |-> payload]

\* struct.pack('<I', ((MPLEX_BASE + code) << 24) | msg_len), for a length
\* below 2^31; struct.error when the value does not fit 32 bits.
mplex_header(code, msg_len) ==
  [ok |-> MPLEX_BASE + code \in 0..255
          /\ BitOr(MPLEX_BASE + code, msg_len \div 16777216) \in 0..255,
   bytes |-> <<msg_len % 256, (msg_len \div 256) % 256,
               (msg_len \div 65536) % 256,
               BitOr((MPLEX_BASE + code) % 256, (msg_len \div 16777216) % 256)>>]

\* The bytes of a well-formed frame on the wire.
frame_bytes(f) == Runs(mplex_header(f.tag, RLen(f.payload)).bytes) \o f.payload

\* _read_raw_bytes(size) on the stream received so far.  A socket read
\* returns what there is when the peer has closed; a read through in_buffer
\* raises EOFError at the end of the stream and when the buffer is full
\* before size bytes are in it, and leaves the bytes in the buffer.  A read
\* that has to wait for bytes is "block".
read_raw_bytes(m, size) ==
  IF m.transport = "sock"
    THEN IF RLen(m.raw) >= size \/ m.closed
           THEN [status |-> "ok", data |-> RTake(m.raw, size),
                 raw |-> RDrop(m.raw, size)]
         ELSE [status |-> "block", data |-> << >>, raw |-> m.raw]
  ELSE IF size <= buffer_size /\ RLen(m.raw) >= size
    THEN [status |-> "ok", data |-> RTake(m.raw, size), raw |-> RDrop(m.raw, size)]
  ELSE IF m.closed \/ (size > buffer_size /\ RLen(m.raw) >= buffer_size)
    THEN [status |-> "EOFError", data |-> << >>, raw |-> m.raw]
  ELSE [status |-> "block", data |-> << >>, raw |-> m.raw]

\* struct.unpack('<I', header)[0] & 0xFFFFFF and (... >> 24) - MPLEX_BASE
header_len(h) == h[1] + 256 * h[2] + 65536 * h[3]
header_code(h) == h[4] - MPLEX_BASE

\* The payload read of _mplex_read_one_msg, after the header h.
read_payload(m, h, rest) ==
  IF header_len(h) = 0
    THEN [status |-> "ok", code |-> header_code(h), data |-> << >>, raw |-> rest]
  ELSE With(read_raw_bytes([m EXCEPT !.raw = rest], header_len(h)),
            LAMBDA d :
              IF d.status # "ok"
                THEN [status |-> d.status, code |-> 0, data |-> << >>, raw |-> d.raw]
              ELSE IF RLen(d.data) < header_len(h)
                THEN [status |-> "EOFError", code |-> 0, data |-> << >>, raw |-> d.raw]
              ELSE [status |-> "ok", code |-> header_code(h), data |-> d.data,
                    raw |-> d.raw])

\* _mplex_read_one_msg: status "none" is the return of (None, None).
mplex_read_one_msg(m) ==
  With(read_raw_bytes(m, 4),
       LAMBDA h :
         IF h.status # "ok"
           THEN [status |-> h.status, code |-> 0, data |-> << >>, raw |-> h.raw]
         ELSE IF RLen(h.data) < 4
           THEN [status |-> "none", code |-> 0, data |-> << >>, raw |-> h.raw]
         ELSE read_payload(m, RBytes(h.data), h.raw))

\* The reader after a frame has been taken off the stream.
Consumed(m, one) ==
  [m EXCEPT !.raw = one.raw,
            !.eof_consumed = @ \/ (one.status = "ok" /\ one.code = MSG_EOF)]

CallResult(m, status, value) == [m |-> m, status |-> status, value |-> value]

\* The loop of read_bytes: "while len(out) < size".  A call that raises
\* hands back the bytes it had moved to out, which the caller never sees.
RECURSIVE read_bytes_loop(_, _, _)
read_bytes_loop(m, size, out) ==
  IF RLen(out) >= size THEN CallResult(m, "ok", out)
  ELSE IF m.in_data # << >>
    THEN read_bytes_loop(
           [m EXCEPT !.in_data = RDrop(@, size - RLen(out))], size,
           out \o RTake(m.in_data, size - RLen(out)))
  ELSE With(mplex_read_one_msg(m),
            LAMBDA one :
              IF one.status = "block" THEN CallResult(m, "block", << >>)
              ELSE IF one.status # "ok"
                THEN CallResult(Consumed(m, one), "EOFError", out)
              ELSE IF one.code = MSG_DATA
                THEN read_bytes_loop(
                       [Consumed(m, one) EXCEPT !.in_data = @ \o one.data],
                       size, out)
              ELSE IF one.code = MSG_EOF
                THEN CallResult(
                       [Consumed(m, one) EXCEPT
                          !.in_msgs = Append(@, Frame(one.code, one.data)),
                          !.in_eof = TRUE],
                       "EOFError", out)
              ELSE read_bytes_loop(
                     [Consumed(m, one) EXCEPT
                        !.in_msgs = Append(@, Frame(one.code, one.data))],
                     size, out))

\* read_bytes(size) on a multiplexed input
read_bytes(m, size) ==
  IF m.in_eof THEN CallResult(m, "EOFError", << >>)
  ELSE read_bytes_loop(m, size, << >>)

\* The "while True" loop of recv_msg.
RECURSIVE recv_msg_loop(_)
recv_msg_loop(m) ==
  With(mplex_read_one_msg(m),
       LAMBDA one :
         IF one.status = "block" THEN CallResult(m, "block", << >>)
         ELSE IF one.status = "none" THEN CallResult(Consumed(m, one), "none", << >>)
         ELSE IF one.status # "ok"
           THEN CallResult(Consumed(m, one), one.status, << >>)
         ELSE IF one.code = MSG_DATA
           THEN recv_msg_loop([Consumed(m, one) EXCEPT !.in_data = @ \o one.data])
         ELSE CallResult(
                [Consumed(m, one) EXCEPT
                   !.in_eof = @ \/ one.code = MSG_EOF],
                "ok", Frame(one.code, one.data)))

recv_msg_unset(m) ==
  IF m.in_msgs # << >>
    THEN CallResult([m EXCEPT !.in_msgs = Tail(@)], "ok", Head(m.in_msgs))
  ELSE With(recv_msg_loop(m),
            LAMBDA r : CallResult([r.m EXCEPT !.in_eof = m.in_eof], r.status, r.value))

\* recv_msg() on a multiplexed input
recv_msg(m) ==
  IF m.in_msgs # << >>
    THEN CallResult([m EXCEPT !.in_msgs = Tail(@)], "ok", Head(m.in_msgs))
  ELSE recv_msg_loop(m)

MaxFrames == 3
MaxMplexCalls == 3
ReadSizes == {1, 2}

\* A DATA payload larger than the input buffer whose first bytes read as the
\* header of a DATA frame of one byte, and one whose first bytes read as an
\* INFO frame without payload.
BigData == Runs(<<1, 0, 0, MPLEX_BASE + MSG_DATA>>) \o <<Run(90, 69996)>>
BigInfo == Runs(<<0, 0, 0, MPLEX_BASE + MSG_INFO>>) \o <<Run(90, 69996)>>

ArrivingFrames ==
  {Frame(MSG_DATA, Runs(<<5>>)), Frame(MSG_DATA, Runs(<<5, 6>>)),
   Frame(MSG_DATA, BigData), Frame(MSG_DATA, BigInfo),
   Frame(MSG_EOF, << >>), Frame(MSG_INFO, << >>), Frame(MSG_INFO, Runs(<<9>>))}

MplexInit ==
  /\ PipelineIdle
  /\ WireIdle
  /\ TokenIdle
  /\ HandshakeIdle
  /\ ChoiceIdle
  /\ FlistIdle
  /\ MplexOutIdle
  /\ CodecIdle
  /\ FileSumIdle
  /\ ReceiveIdle
  /\ SignatureIdle
  /\ LateIdle
  /\ pc = "mplex_in"
  /\ \E transport \in {"sock", "fd"} :
       mx = [transport |-> transport, raw |-> << >>, closed |-> FALSE,
             in_data |-> << >>, in_msgs |-> << >>, in_eof |-> FALSE,
             eof_consumed |-> FALSE, restarted |-> FALSE, arrived |-> << >>,
             returned |-> << >>, taken |-> << >>, delivered |-> << >>,
             calls |-> 0,
             last |-> [call |-> "none", status |-> "none", after_eof |-> FALSE]]

\* A frame arrives on the raw stream.
Arrive ==
  /\ pc = "mplex_in"
  /\ ~mx.closed
  /\ Len(mx.arrived) < MaxFrames
  /\ \E f \in ArrivingFrames :
       mx' = [mx EXCEPT !.raw = @ \o frame_bytes(f), !.arrived = Append(@, f)]
  /\ UNCHANGED <<pc, mplex_in_frame>>

\* The peer closes the stream.
Close ==
  /\ pc = "mplex_in"
  /\ ~mx.closed
  /\ mx' = [mx EXCEPT !.closed = TRUE]
  /\ UNCHANGED <<pc, mplex_in_frame>>

\* The reader after a call that returned or raised.
AfterCall(call, r) ==
  [r.m EXCEPT !.calls = mx.calls + 1,
              !.last = [call |-> call, status |-> r.status,
                        after_eof |-> mx.eof_consumed]]

\* A read_bytes(size) call that returns or raises.
ReadBytes ==
  /\ pc = "mplex_in"
  /\ mx.calls < MaxMplexCalls
  /\ \E size \in ReadSizes :
       With(read_bytes(mx, size),
            LAMBDA r :
              /\ r.status # "block"
              /\ mx' = [AfterCall("read_bytes", r) EXCEPT
                          !.returned = IF r.status = "ok" THEN RNorm(@ \o r.value)
                                       ELSE @,
                          !.taken = RNorm(@ \o r.value)])
  /\ UNCHANGED <<pc, mplex_in_frame>>

\* A recv_msg() call that returns or raises.
RecvMsg ==
  /\ pc = "mplex_in"
  /\ mx.calls < MaxMplexCalls
  /\ With(recv_msg(mx),
          LAMBDA r :
            /\ r.status # "block"
            /\ mx' = [AfterCall("recv_msg", r) EXCEPT
                        !.delivered = IF r.status = "ok" THEN Append(@, r.value)
                                      ELSE @])
  /\ UNCHANGED <<pc, mplex_in_frame>>

\* io_start_multiplex_in() called again
StartMultiplexIn ==
  /\ pc = "mplex_in"
  /\ ~mx.restarted
  /\ mx.calls > 0
  /\ mx' = [mx EXCEPT !.in_data = << >>, !.in_msgs = << >>, !.in_eof = FALSE,
                      !.eof_consumed = FALSE, !.restarted = TRUE,
                      !.last = [call |-> "io_start_multiplex_in",
                                status |-> "ok", after_eof |-> FALSE]]
  /\ UNCHANGED <<pc, mplex_in_frame>>

MplexNext == Arrive \/ Close \/ ReadBytes \/ RecvMsg \/ StartMultiplexIn

MplexSpec == MplexInit /\ [][MplexNext]_vars

RECURSIVE DataOf(_)
DataOf(frames) ==
  IF frames = << >> THEN << >>
  ELSE (IF Head(frames).tag = MSG_DATA THEN Head(frames).payload ELSE << >>)
       \o DataOf(Tail(frames))

RECURSIVE ControlOf(_)
ControlOf(frames) ==
  IF frames = << >> THEN << >>
  ELSE (IF Head(frames).tag # MSG_DATA
          THEN <<Frame(Head(frames).tag, RNorm(Head(frames).payload))>> ELSE << >>)
       \o ControlOf(Tail(frames))

IsSeqPrefix(a, b) == Len(a) <= Len(b) /\ SubSeq(b, 1, Len(a)) = a

\* C11: the bytes that successful read_bytes calls returned are the start of
\* the DATA payloads that arrived, in their order.
C11_DataInOrder ==
  pc = "mplex_in" /\ ~mx.restarted => RIsPrefix(mx.returned, DataOf(mx.arrived))

\* C12: every read_bytes call made after an EOF frame was taken off the
\* stream, and before multiplexed input is started again, raises EOFError.
C12_EofEndsData ==
  pc = "mplex_in" /\ mx.last.call = "read_bytes" /\ mx.last.after_eof =>
    mx.last.status = "EOFError"

\* An EOF frame taken off the stream by recv_msg while data bytes were still
\* buffered, and a read_bytes call after it.
C12_Witness ==
  /\ pc = "mplex_in"
  /\ mx.last.call = "read_bytes" /\ mx.last.after_eof
  /\ mx.last.status = "EOFError"
  /\ mx.in_data # << >>
  /\ \E i \in 1..Len(mx.delivered) : mx.delivered[i].tag = MSG_EOF

\* C13: the messages recv_msg returned are the start of the non-DATA frames
\* that arrived, in their order.
C13_ControlInOrder ==
  pc = "mplex_in" /\ ~mx.restarted =>
    IsSeqPrefix([i \in 1..Len(mx.delivered) |->
                   Frame(mx.delivered[i].tag, RNorm(mx.delivered[i].payload))],
                ControlOf(mx.arrived))


\* ---------------------------------------------------------------------
\* Multiplexed output: write_bytes, flush and send_msg after
\* io_start_multiplex_out() (out_empty_len = 4).  mo.raw is the byte stream
\* handed to _write_raw_bytes, which is the stream the peer reads on a socket
\* and through out_buffer alike; mo.frames lists, for each header written,
\* the tag and the payload the caller meant, the four header bytes and the
\* number of the call that wrote it; mo.written is the data passed to
\* write_bytes so far.

\* max_payload = min(MPLEX_MAX_PAYLOAD, max(1, out_buffer.size - 4))
max_payload ==
  IF MPLEX_MAX_PAYLOAD < (IF 1 > buffer_size - 4 THEN 1 ELSE buffer_size - 4)
  THEN MPLEX_MAX_PAYLOAD
  ELSE (IF 1 > buffer_size - 4 THEN 1 ELSE buffer_size - 4)

\* _write_raw_bytes(header); _write_raw_bytes(payload)
write_frame(o, code, payload, header) ==
  [o EXCEPT !.raw = RNorm(@ \o Runs(header) \o payload),
            !.frames = Append(@, [tag |-> code, payload |-> RNorm(payload),
                                  header |-> header, call |-> o.calls + 1])]

\* while len(self._mplex_out_data) >= max_payload
RECURSIVE write_bytes_loop(_)
write_bytes_loop(o) ==
  IF RLen(o.out_data) >= max_payload
  THEN write_bytes_loop(
         write_frame([o EXCEPT !.out_data = RNorm(RDrop(@, max_payload))],
                     MSG_DATA, RTake(o.out_data, max_payload),
                     mplex_header(MSG_DATA, max_payload).bytes))
  ELSE o

write_bytes(o, data) ==
  IF RLen(data) = 0 THEN [o EXCEPT !.status = "ok"]
  ELSE [write_bytes_loop([o EXCEPT !.out_data = RNorm(@ \o data),
                                   !.written = RNorm(@ \o data)])
          EXCEPT !.status = "ok"]

mplex_flush_out_data(o) ==
  IF o.out_data = << >> THEN [o EXCEPT !.status = "ok"]
  ELSE IF RLen(o.out_data) > MPLEX_MAX_PAYLOAD
    THEN [o EXCEPT !.status = "ProtocolError"]
  ELSE [write_frame([o EXCEPT !.out_data = << >>], MSG_DATA, o.out_data,
                    mplex_header(MSG_DATA, RLen(o.out_data)).bytes)
          EXCEPT !.status = "ok"]

send_msg(o, code, data) ==
  With(mplex_flush_out_data(o), LAMBDA f :
    IF f.status # "ok" THEN f
    ELSE IF ~mplex_header(code, RLen(data)).ok
      THEN [f EXCEPT !.status = "struct.error"]
    ELSE write_frame(f, code, data, mplex_header(code, RLen(data)).bytes))

MaxOutCalls == 3
\* Lengths around max_payload for write_bytes, around the 24-bit limit for
\* send_msg.
WriteLens == {0, 1, max_payload - 1, max_payload, max_payload + 1}
MsgLens == {0, 1, MPLEX_MAX_PAYLOAD, MPLEX_MAX_PAYLOAD + 1}
MsgCodes == {MSG_EOF, MSG_INFO}

MplexOutInit ==
  /\ PipelineIdle
  /\ WireIdle
  /\ TokenIdle
  /\ HandshakeIdle
  /\ ChoiceIdle
  /\ FlistIdle
  /\ MplexInIdle
  /\ CodecIdle
  /\ FileSumIdle
  /\ ReceiveIdle
  /\ SignatureIdle
  /\ LateIdle
  /\ pc = "mplex_out"
  /\ MplexOutIdle

\* The data of the next call: a run of one byte value, a new value each call.
CallData(n) == IF n = 0 THEN << >> ELSE <<Run(mo.calls + 1, n)>>

WriteBytes ==
  /\ pc = "mplex_out"
  /\ mo.calls < MaxOutCalls
  /\ mo.status \in {"none", "ok"}
  /\ \E n \in WriteLens :
       mo' = [write_bytes(mo, CallData(n)) EXCEPT !.calls = @ + 1]
  /\ UNCHANGED <<pc, mplex_out_frame>>

Flush ==
  /\ pc = "mplex_out"
  /\ mo.calls < MaxOutCalls
  /\ mo.status \in {"none", "ok"}
  /\ mo' = [mplex_flush_out_data(mo) EXCEPT !.calls = @ + 1]
  /\ UNCHANGED <<pc, mplex_out_frame>>

SendMsg ==
  /\ pc = "mplex_out"
  /\ mo.calls < MaxOutCalls
  /\ mo.status \in {"none", "ok"}
  /\ \E code \in MsgCodes, n \in MsgLens :
       mo' = [send_msg(mo, code, CallData(n)) EXCEPT !.calls = @ + 1]
  /\ UNCHANGED <<pc, mplex_out_frame>>

MplexOutNext == WriteBytes \/ Flush \/ SendMsg

MplexOutSpec == MplexOutInit /\ [][MplexOutNext]_vars

\* What a reader makes of a complete stream of frames: the header's low 24
\* bits as the length, its high byte less MPLEX_BASE as the tag.
RECURSIVE ParseFrames(_)
ParseFrames(raw) ==
  IF RLen(raw) < 4 THEN << >>
  ELSE With(RBytes(RTake(raw, 4)), LAMBDA h :
         <<Frame(header_code(h), RNorm(RTake(RDrop(raw, 4), header_len(h))))>>
         \o ParseFrames(RDrop(raw, 4 + header_len(h))))

\* C14: every frame written by write_bytes, flush or send_msg has a header
\* whose high byte is 7 + tag and whose low 24 bits are the payload's byte
\* count, the payload is at most 2^24 - 1 bytes, and a reader of the stream
\* recovers the same (tag, payload) frames.
C14_FrameHeader ==
  pc = "mplex_out" =>
    /\ \A i \in 1..Len(mo.frames) :
         /\ mo.frames[i].header[4] = MPLEX_BASE + mo.frames[i].tag
         /\ header_len(mo.frames[i].header) = RLen(mo.frames[i].payload)
         /\ RLen(mo.frames[i].payload) <= MPLEX_MAX_PAYLOAD
    /\ ParseFrames(mo.raw)
         = [i \in 1..Len(mo.frames) |->
              Frame(mo.frames[i].tag, mo.frames[i].payload)]


\* ---------------------------------------------------------------------
\* The codecs taken alone: a value is drawn at the start, written, and the
\* bytes written are read back.  cx.arg is the input, cx.wire the bytes
\* written, cx.out what the reader returned.

CodecStart(op, arg) ==
  [op |-> op, step |-> "in", arg |-> arg, wire |-> << >>, out |-> << >>]

SumHead(count, blen, s2len, remainder) ==
  [count |-> count, blength |-> blen, s2length |-> s2len, remainder |-> remainder]

\* The fields read_sum_head accepts under a protocol version.
SumHeadValid(h, protocol_version) ==
  /\ h.count >= 0
  /\ h.blength >= 0
  /\ h.blength <= (IF protocol_version < 30 THEN OLD_MAX_BLOCK_SIZE
                   ELSE MAX_BLOCK_SIZE)
  /\ h.s2length >= 0 /\ h.s2length <= MAX_DIGEST_LEN
  /\ h.remainder >= 0 /\ h.remainder <= h.blength

SumProtocols == {26, 27, 29, 30, PROTOCOL_VERSION}
SumCounts == {0, 1, 100, 2147483647}
SumBlengths ==
  {0, 1, 700, OLD_MAX_BLOCK_SIZE, OLD_MAX_BLOCK_SIZE + 1, MAX_BLOCK_SIZE,
   MAX_BLOCK_SIZE + 1}
SumS2lengths == {0, SHORT_SUM_LENGTH, 16, MAX_DIGEST_LEN, MAX_DIGEST_LEN + 1}

SumHeadInputs ==
  {CodecStart("sum_head", [protocol |-> p, h |-> SumHead(c, b, l, r)]) :
     p \in SumProtocols, c \in SumCounts, b \in SumBlengths,
     l \in SumS2lengths, r \in {0, 1, 699, 8192, 131072, 131073}}

WriteSumHead ==
  /\ pc = "codec"
  /\ cx.op = "sum_head" /\ cx.step = "in"
  /\ cx' = [cx EXCEPT !.step = "written",
                      !.wire = write_sum_head(cx.arg.h, cx.arg.protocol)]
  /\ UNCHANGED <<pc, codec_frame>>

ReadSumHeadBack ==
  /\ pc = "codec"
  /\ cx.op = "sum_head" /\ cx.step = "written"
  /\ cx' = [cx EXCEPT !.step = "read",
                      !.out = read_sum_head(cx.wire, cx.arg.protocol)]
  /\ UNCHANGED <<pc, codec_frame>>

\* Values at each change of the encoded length, the ends of the int32 range
\* and the values around zero.
VarintValues ==
  {127, 128, 16383, 16384, 2097151, 2097152, 268435455, 268435456,
   2147483647, -2147483647 - 1, -2147483647, 65535, 65536, 16777215,
   16777216} \cup (-130..130)

VarintInputs == {CodecStart("varint", v) : v \in VarintValues}

WriteVarint ==
  /\ pc = "codec"
  /\ cx.op = "varint" /\ cx.step = "in"
  /\ cx' = [cx EXCEPT !.step = "written", !.wire = write_varint(cx.arg)]
  /\ UNCHANGED <<pc, codec_frame>>

ReadVarint ==
  /\ pc = "codec"
  /\ cx.op = "varint" /\ cx.step = "written"
  /\ cx' = [cx EXCEPT !.step = "read", !.out = rd_varint(Reader(cx.wire))]
  /\ UNCHANGED <<pc, codec_frame>>

\* The eight bytes of struct.pack('<q', value) for the values tried: byte j
\* is t, the bytes below it are f, the bytes above it are zero.
Long64(j, t, f) == [n \in 1..8 |-> IF n < j THEN f ELSE IF n = j THEN t ELSE 0]

VarlongValues ==
  {Long64(j, t, f) : j \in 1..8, t \in {0, 1, 3, 4, 127, 128, 255}, f \in {0, 255}}

MinBytes == 1..8

VarlongInputs ==
  {CodecStart("varlong", [value |-> v, min_bytes |-> n]) :
     v \in VarlongValues, n \in MinBytes}

WriteVarlong ==
  /\ pc = "codec"
  /\ cx.op = "varlong" /\ cx.step = "in"
  /\ cx' = [cx EXCEPT !.step = "written",
                      !.wire = write_varlong_bytes(cx.arg.value, cx.arg.min_bytes)]
  /\ UNCHANGED <<pc, codec_frame>>

ReadVarlong ==
  /\ pc = "codec"
  /\ cx.op = "varlong" /\ cx.step = "written"
  /\ cx' = [cx EXCEPT !.step = "read",
                      !.out = rd_varlong_bytes(Reader(cx.wire), cx.arg.min_bytes)]
  /\ UNCHANGED <<pc, codec_frame>>

\* The bytes of a run string, one by one.
RECURSIVE RExpand(_)
RExpand(r) ==
  IF r = << >> THEN << >>
  ELSE [j \in 1..Head(r)[2] |-> Head(r)[1]] \o RExpand(Tail(r))

MaxRun == 300
RollStep == 32
MaxSlides == 3
RollBytes == {0, 1, 255}
RunLens == {1, 2, MaxRun}
\* Windows of a few bytes and windows long enough for s1 and s2 to pass 2^16.
RollWindows == {1, 2, 3, 258, MaxRun}

\* D = data, k = length, i = the first window's offset, with i + k < len(D)
RollingInputs ==
  {c \in {CodecStart("rolling", [data |-> <<Run(b1, n1), Run(b2, n2)>>,
                                  length |-> w, offset |-> o]) :
             b1 \in RollBytes, b2 \in RollBytes, n1 \in RunLens,
             n2 \in RunLens, w \in RollWindows, o \in {0, 1, 2, 40}} :
     c.arg.offset + c.arg.length < RLen(c.arg.data)}

\* The loop of Checksum.rolling_checksum(D, i, k), at most RollStep bytes of
\* the window at a time: s1 and s2 after the bytes summed so far.  At the end
\* of the loop they are the components of the value returned.
RollingChecksum ==
  /\ pc = "codec"
  /\ cx.op = "rolling" /\ cx.step \in {"in", "summing"}
  /\ LET from == IF cx.step = "in" THEN 0 ELSE cx.out.summed
         upto == Min(from + RollStep, cx.arg.length)
         s == IF cx.step = "in" THEN <<0, 0>> ELSE <<cx.out.s1, cx.out.s2>>
     IN  cx' = [cx EXCEPT
           !.step = IF upto = cx.arg.length THEN "summed" ELSE "summing",
           !.out = With(RollLoop(RExpand(cx.arg.data), cx.arg.offset, upto,
                                 from, s[1], s[2]),
                        LAMBDA c : [offset |-> cx.arg.offset, s1 |-> c[1],
                                    s2 |-> c[2], summed |-> upto, slides |-> 0])]
  /\ UNCHANGED <<pc, codec_frame>>

\* Checksum.rolling_update: the window moves one byte to the right.
RollingUpdate ==
  /\ pc = "codec"
  /\ cx.op = "rolling" /\ cx.step \in {"summed", "slid"}
  /\ cx.out.slides < MaxSlides
  /\ cx.out.offset + cx.arg.length < RLen(cx.arg.data)
  /\ cx' = [cx EXCEPT
       !.step = "slid",
       !.out = With(rolling_update(
                      At(RExpand(cx.arg.data), cx.out.offset),
                      At(RExpand(cx.arg.data), cx.out.offset + cx.arg.length),
                      cx.out.s1, cx.out.s2, cx.arg.length),
                    LAMBDA c : [offset |-> cx.out.offset + 1, s1 |-> c[1],
                                s2 |-> c[2], summed |-> cx.out.summed,
                                slides |-> cx.out.slides + 1])]
  /\ UNCHANGED <<pc, codec_frame>>

\* Windows of every length modulo four, none, and long enough for s1 and s2
\* to pass 2^16; data that changes inside a group of four.
WeakWindows == {0, 1, 2, 3, 4, 5, 6, 7, 8, 257, 258, 259, MaxRun}
WeakOffsets == {0, 1, 2, 3}

\* rolling_checksum(D, i, k) and rolling_checksum_optimized(D, i, k) on the
\* same window, i + k <= len(D).
WeakInputs ==
  {c \in {CodecStart("weak", [data |-> <<Run(b1, n1), Run(b2, n2), Run(b3, 2)>>,
                               length |-> w, offset |-> o]) :
             b1 \in RollBytes, b2 \in RollBytes, b3 \in RollBytes,
             n1 \in RunLens, n2 \in {1, MaxRun}, w \in WeakWindows,
             o \in WeakOffsets} :
     c.arg.offset + c.arg.length <= RLen(c.arg.data)}

\* rolling_checksum on the window, at most RollStep bytes of its loop a step.
WeakChecksum ==
  /\ pc = "codec"
  /\ cx.op = "weak" /\ cx.step \in {"in", "summing"}
  /\ LET from == IF cx.step = "in" THEN 0 ELSE cx.out.summed
         upto == Min(from + RollStep, cx.arg.length)
         s == IF cx.step = "in" THEN <<0, 0>> ELSE <<cx.out.s1, cx.out.s2>>
     IN  cx' = [cx EXCEPT
           !.step = IF upto = cx.arg.length THEN "optimized" ELSE "summing",
           !.out = With(RollLoop(RExpand(cx.arg.data), cx.arg.offset, upto,
                                 from, s[1], s[2]),
                        LAMBDA c : [s1 |-> c[1], s2 |-> c[2], summed |-> upto,
                                    o1 |-> 0, o2 |-> 0, done |-> 0])]
  /\ UNCHANGED <<pc, codec_frame>>

\* rolling_checksum_optimized on the same window, at most RollStep bytes of
\* its loops a step.
WeakChecksumOptimized ==
  /\ pc = "codec"
  /\ cx.op = "weak" /\ cx.step = "optimized"
  /\ With(Roll4Upto(RExpand(cx.arg.data), cx.arg.offset, cx.arg.length,
                    Min(cx.out.done + RollStep, cx.arg.length), cx.out.done,
                    cx.out.o1, cx.out.o2),
          LAMBDA c :
            cx' = [cx EXCEPT
              !.step = IF c[3] >= cx.arg.length THEN "both" ELSE "optimized",
              !.out = [cx.out EXCEPT !.o1 = c[1], !.o2 = c[2], !.done = c[3]]])
  /\ UNCHANGED <<pc, codec_frame>>

CodecInit ==
  /\ PipelineIdle
  /\ WireIdle
  /\ TokenIdle
  /\ HandshakeIdle
  /\ ChoiceIdle
  /\ FlistIdle
  /\ MplexInIdle
  /\ MplexOutIdle
  /\ FileSumIdle
  /\ ReceiveIdle
  /\ SignatureIdle
  /\ LateIdle
  /\ pc = "codec"
  /\ cx \in SumHeadInputs \cup VarintInputs \cup VarlongInputs \cup RollingInputs
            \cup WeakInputs

CodecNext ==
  \/ WriteSumHead \/ ReadSumHeadBack
  \/ WriteVarint \/ ReadVarint
  \/ WriteVarlong \/ ReadVarlong
  \/ RollingChecksum \/ RollingUpdate
  \/ WeakChecksum \/ WeakChecksumOptimized

CodecSpec == CodecInit /\ [][CodecNext]_vars

\* C15: for every valid (protocol, fields), reading the bytes of
\* write_sum_head gives the fields back and leaves no byte; s2length is on
\* the wire from protocol 27 on and is read as 2 below.
C15_SumHeadRoundTrip ==
  pc = "codec" /\ cx.op = "sum_head" /\ cx.step = "read"
  /\ SumHeadValid(cx.arg.h, cx.arg.protocol) =>
    /\ cx.out.valid
    /\ cx.out.rest = << >>
    /\ Len(cx.wire) = (IF cx.arg.protocol >= 27 THEN 16 ELSE 12)
    /\ cx.out.head = (IF cx.arg.protocol >= 27 THEN cx.arg.h
                      ELSE [cx.arg.h EXCEPT !.s2length = SHORT_SUM_LENGTH])

C15_Witness ==
  /\ pc = "codec" /\ cx.op = "sum_head" /\ cx.step = "read"
  /\ SumHeadValid(cx.arg.h, cx.arg.protocol)
  /\ cx.arg.protocol = 26
  /\ cx.arg.h = SumHead(2147483647, OLD_MAX_BLOCK_SIZE, 16, 699)
  /\ cx.out.head = SumHead(2147483647, OLD_MAX_BLOCK_SIZE, SHORT_SUM_LENGTH, 699)

\* The bytes the claim lists for the values where the length changes.
VarintTable ==
  [v \in {127, 128, 16383, 16384} |->
     CASE v = 127 -> <<127>>
       [] v = 128 -> <<128, 128>>
       [] v = 16383 -> <<191, 255>>
       [] v = 16384 -> <<192, 0, 64>>]

\* C16: read_varint gives back every int32 written by write_varint and
\* leaves no byte, and 0x7F, 0x80, 0x3FFF, 0x4000 are written as 7f, 80 80,
\* bf ff, c0 00 40.
C16_VarintRoundTrip ==
  /\ pc = "codec" /\ cx.op = "varint" /\ cx.step = "read" =>
       /\ cx.out.status = "ok"
       /\ cx.out.value = cx.arg
       /\ cx.out.buf = << >>
  /\ pc = "codec" /\ cx.op = "varint" /\ cx.step # "in"
     /\ cx.arg \in DOMAIN VarintTable => cx.wire = VarintTable[cx.arg]

C16_Witness ==
  /\ pc = "codec" /\ cx.op = "varint" /\ cx.step = "read"
  /\ cx.arg = -2147483647 - 1
  /\ Len(cx.wire) = 5
  /\ cx.out.value = cx.arg

\* C17: for every min_bytes in 1..8 and every 64-bit value, read_varlong
\* gives back the value written by write_varlong and consumes exactly the
\* bytes written.
C17_VarlongRoundTrip ==
  pc = "codec" /\ cx.op = "varlong" /\ cx.step = "read" =>
    /\ cx.out.status = "ok"
    /\ cx.out.value = cx.arg.value
    /\ cx.out.buf = << >>

\* s1 and s2 of the window D[i..i+k) as sums: the bytes, and (k - j) times
\* byte j, before the reduction mod 2^16.
RECURSIVE WindowSum1(_, _, _)
WindowSum1(D, lo, hi) ==
  IF hi <= lo THEN 0
  ELSE IF hi - lo = 1 THEN At(D, lo)
  ELSE WindowSum1(D, lo, (lo + hi) \div 2) + WindowSum1(D, (lo + hi) \div 2, hi)

RECURSIVE WindowSum2(_, _, _, _)
WindowSum2(D, lo, hi, end_of_window) ==
  IF hi <= lo THEN 0
  ELSE IF hi - lo = 1 THEN (end_of_window - lo) * At(D, lo)
  ELSE WindowSum2(D, lo, (lo + hi) \div 2, end_of_window)
       + WindowSum2(D, (lo + hi) \div 2, hi, end_of_window)

\* C18: sliding the window by rolling_update gives the components of the
\* checksum of the next window, the from-scratch checksum having as its
\* components the sum of the window's bytes and the sum of (k - j) * byte j,
\* each mod 2^16.
C18_RollingUpdate ==
  pc = "codec" /\ cx.op = "rolling" /\ cx.step \in {"summed", "slid"} =>
    /\ cx.out.s1
         = WindowSum1(RExpand(cx.arg.data), cx.out.offset,
                      cx.out.offset + cx.arg.length) % M16
    /\ cx.out.s2
         = WindowSum2(RExpand(cx.arg.data), cx.out.offset,
                      cx.out.offset + cx.arg.length,
                      cx.out.offset + cx.arg.length) % M16

C18_Witness ==
  /\ pc = "codec" /\ cx.op = "rolling" /\ cx.step = "slid"
  /\ cx.out.slides = MaxSlides
  /\ WindowSum1(RExpand(cx.arg.data), cx.out.offset,
                cx.out.offset + cx.arg.length) >= M16
  /\ cx.out.s1 < 255


\* ---------------------------------------------------------------------
\* apply_delta_over_wire with a whole-file digest after the token stream:
\* send_delta_over_wire writes the sum header, the tokens and
\* delta.sender_file_sum; the receiver reads the header, runs receive_data and
\* verifies the digest.  The delta is the caller's: its instructions, its
\* sender_file_sum (has_file_sum is "sender_file_sum is not None") and the
\* checksum type and seed it names.

\* The digests of the model: digest_len bytes that tell the algorithm, the
\* seed and the data apart (no two of the model's files collide).
DigestLen(csum_type) == IF csum_type = "sha1" THEN 20 ELSE 16

Digest(csum_type, seed, data) ==
  [n \in 1..DigestLen(csum_type) |->
     IF n = 1 THEN DigestLen(csum_type)
     ELSE IF n = 2 THEN seed % 256
     ELSE IF n = 3 THEN Len(data)
     ELSE IF n - 3 <= Len(data) THEN data[n - 3] ELSE 0]

ChecksumTypes == {"md5", "sha1"}

\* csum_type of apply_delta_over_wire: the delta's, else the signature's; MD5
\* when the name chosen is no ChecksumType or there is none.
xfer_csum_type(delta, signature_type) ==
  IF delta.xfer_checksum_type # "None"
  THEN (IF delta.xfer_checksum_type \in ChecksumTypes
        THEN delta.xfer_checksum_type ELSE "md5")
  ELSE IF signature_type # "None"
  THEN (IF signature_type \in ChecksumTypes THEN signature_type ELSE "md5")
  ELSE "md5"

\* seed = delta.xfer_checksum_seed if it is not None else signature.checksum_seed
xfer_seed(delta, signature_seed) ==
  IF delta.xfer_checksum_seed # None THEN delta.xfer_checksum_seed
  ELSE signature_seed

\* A sender that writes the first s2length bytes of the digest only.
write_file_sum_prefix(delta, head) ==
  IF delta.has_file_sum
  THEN SubSeq(delta.sender_file_sum, 1, Min(head.s2length, Len(delta.sender_file_sum)))
  ELSE << >>

\* if delta.sender_file_sum is not None: write_bytes(delta.sender_file_sum)
write_file_sum(delta, head) ==
  IF delta.has_file_sum THEN delta.sender_file_sum ELSE << >>

\* A comparison of the first two bytes of the digests only.
sums_differ_short(sender_sum, receiver_sum) ==
  SubSeq(sender_sum, 1, Min(2, Len(sender_sum)))
    # SubSeq(receiver_sum, 1, Min(2, Len(receiver_sum)))

\* sender_sum != receiver_sum
sums_differ(sender_sum, receiver_sum) == sender_sum # receiver_sum

FsBases == {<< >>, <<1, 2>>, <<1, 2, 1>>, <<1, 2, 2, 1>>}
FsBlockSize == 2
FsInstructions ==
  {<< >>,
   <<DeltaMatch(0, 0, 2)>>,
   <<DeltaLiteral(0, <<7>>)>>,
   <<DeltaMatch(0, 0, 2), DeltaLiteral(2, <<7, 8>>)>>,
   <<DeltaLiteral(0, <<7>>), DeltaMatch(1, 1, 2)>>,
   <<DeltaMatch(1, 0, 1)>>,
   <<DeltaMatch(5, 0, 2)>>}
FsSumKinds == {"none", "computed", "other", "prefix", "empty"}
FsTypes == {"None", "md5", "sha1", "bogus"}
FsSeeds == {None, 0, 7}

\* The file the delta stands for: what its instructions rebuild from the
\* basis, block by block as receive_data copies them.
FsNewFile(basis_data, instrs) ==
  With(sum_head_from_signature(generate_signature(basis_data, FsBlockSize)),
       LAMBDA h :
         Concat([n \in 1..Len(instrs) |->
                   IF instrs[n].cmd = "match"
                   THEN Slice(basis_data, instrs[n].block_index * h.blength,
                              instrs[n].block_index * h.blength
                              + (IF instrs[n].block_index = h.count - 1
                                    /\ h.remainder > 0
                                 THEN h.remainder ELSE h.blength))
                   ELSE instrs[n].data]))

\* delta.sender_file_sum as generate_delta computes it (the digest of the new
\* file under the signature's type and seed), and the sums a caller may put
\* in its place.
FsFileSum(kind, new_data) ==
  CASE kind = "computed" -> Digest("md5", 0, new_data)
    [] kind = "other" -> Digest("md5", 0, new_data \o <<9>>)
    [] kind = "prefix" -> SubSeq(Digest("md5", 0, new_data), 1, SHORT_SUM_LENGTH)
    [] OTHER -> << >>

FileSumStart(basis_data, instrs, kind, type, seed, verify) ==
  [pc |-> "start", basis_data |-> basis_data,
   signature_type |-> "md5", signature_seed |-> 0,
   delta |-> [instructions |-> instrs, has_file_sum |-> kind # "none",
              sender_file_sum |-> FsFileSum(kind, FsNewFile(basis_data, instrs)),
              xfer_checksum_type |-> type, xfer_checksum_seed |-> seed],
   kind |-> kind, VERIFY_SENDER_FILE_SUM_ON_WIRE |-> verify,
   wire |-> << >>, written_sum |-> << >>,
   sum_head |-> SumHead(0, 0, 0, 0), reconstructed |-> << >>,
   read_sum |-> FALSE, sender_sum |-> << >>, receiver_sum |-> << >>,
   status |-> "none", returned |-> << >>]

FileSumInit ==
  /\ PipelineIdle
  /\ WireIdle
  /\ TokenIdle
  /\ HandshakeIdle
  /\ ChoiceIdle
  /\ FlistIdle
  /\ MplexInIdle
  /\ MplexOutIdle
  /\ CodecIdle
  /\ ReceiveIdle
  /\ SignatureIdle
  /\ LateIdle
  /\ pc = "file_sum"
  /\ \E basis_data \in FsBases, instrs \in FsInstructions, kind \in FsSumKinds,
        type \in FsTypes, seed \in FsSeeds, verify \in BOOLEAN :
       fs = FileSumStart(basis_data, instrs, kind, type, seed, verify)

\* The sum header send_delta_over_wire writes for the basis of the call.
FsHead == sum_head_from_signature(generate_signature(fs.basis_data, FsBlockSize))

\* send_delta_over_wire: the sum header, the tokens, the end token and then
\* the sender's file sum.  written_sum is what was written after the end
\* token.
SendDeltaWithSum ==
  /\ pc = "file_sum"
  /\ fs.pc = "start"
  /\ fs' = [fs EXCEPT
       !.pc = "sent",
       !.wire = write_sum_head(FsHead, PROTOCOL_VERSION)
                \o send_instructions(fs.delta.instructions, 1, << >>)
                \o write_file_sum(fs.delta, FsHead),
       !.written_sum = write_file_sum(fs.delta, FsHead)]
  /\ UNCHANGED <<pc, filesum_frame>>

\* sum_head = receiver.read_sum_head(protocol_version)
ReceiverReadSumHead ==
  /\ pc = "file_sum"
  /\ fs.pc = "sent"
  /\ fs' = With(read_sum_head(fs.wire, PROTOCOL_VERSION), LAMBDA r :
             IF r.valid
             THEN [fs EXCEPT !.pc = "headed", !.sum_head = r.head, !.wire = r.rest]
             ELSE [fs EXCEPT !.pc = "failed", !.status = "ProtocolError"])
  /\ UNCHANGED <<pc, filesum_frame>>

\* reconstructed, stats = receive_data(receiver, basis_data, sum_head)
ReceiverReceiveData ==
  /\ pc = "file_sum"
  /\ fs.pc = "headed"
  /\ fs' = With(receive_loop(fs.wire, fs.basis_data, fs.sum_head, << >>, << >>),
                LAMBDA r :
             IF r.status = "ok"
             THEN [fs EXCEPT !.pc = "received", !.reconstructed = r.result,
                             !.wire = r.rest]
             ELSE [fs EXCEPT !.pc = "failed", !.status = r.status,
                             !.wire = r.rest])
  /\ UNCHANGED <<pc, filesum_frame>>

\* What follows receive_data with the digest read: the receiver's own digest
\* and the comparison.
verify_file_sum(f, sender_sum) ==
  With(Digest(xfer_csum_type(f.delta, f.signature_type),
              xfer_seed(f.delta, f.signature_seed), f.reconstructed),
       LAMBDA receiver_sum :
         IF sums_differ(sender_sum, receiver_sum)
         THEN [f EXCEPT !.pc = "failed", !.status = "DataIntegrityError",
                        !.read_sum = TRUE, !.sender_sum = sender_sum,
                        !.receiver_sum = receiver_sum,
                        !.wire = Drop(@, Len(sender_sum))]
         ELSE [f EXCEPT !.pc = "returned", !.status = "ok",
                        !.read_sum = TRUE, !.sender_sum = sender_sum,
                        !.receiver_sum = receiver_sum,
                        !.wire = Drop(@, Len(sender_sum)),
                        !.returned = f.reconstructed])

\* The end of apply_delta_over_wire: with VERIFY_SENDER_FILE_SUM_ON_WIRE and a
\* sender_file_sum, read len(delta.sender_file_sum) bytes (EOFError when the
\* file holds fewer) and compare; then return the reconstructed data.
VerifyFileSum ==
  /\ pc = "file_sum"
  /\ fs.pc = "received"
  /\ fs' = IF fs.VERIFY_SENDER_FILE_SUM_ON_WIRE /\ fs.delta.has_file_sum
           THEN IF Len(fs.wire) < Len(fs.delta.sender_file_sum)
                THEN [fs EXCEPT !.pc = "failed", !.status = "EOFError"]
                ELSE verify_file_sum(
                       fs, SubSeq(fs.wire, 1, Len(fs.delta.sender_file_sum)))
           ELSE [fs EXCEPT !.pc = "returned", !.status = "ok",
                           !.returned = fs.reconstructed]
  /\ UNCHANGED <<pc, filesum_frame>>

FileSumNext ==
  SendDeltaWithSum \/ ReceiverReadSumHead \/ ReceiverReceiveData \/ VerifyFileSum

FileSumSpec == FileSumInit /\ [][FileSumNext]_vars

C20_FileSumVerified ==
  pc = "file_sum" /\ fs.VERIFY_SENDER_FILE_SUM_ON_WIRE /\ fs.delta.has_file_sum
  /\ fs.read_sum =>
    /\ fs.sender_sum = fs.written_sum
    /\ fs.status = "DataIntegrityError"
         <=> fs.sender_sum # Digest(xfer_csum_type(fs.delta, fs.signature_type),
                                    xfer_seed(fs.delta, fs.signature_seed),
                                    fs.reconstructed)
    /\ fs.status = "DataIntegrityError" => fs.pc = "failed" /\ fs.returned = << >>
    /\ fs.status # "DataIntegrityError" =>
         fs.pc = "returned" /\ fs.status = "ok" /\ fs.returned = fs.reconstructed

C20_Witness ==
  /\ pc = "file_sum" /\ fs.VERIFY_SENDER_FILE_SUM_ON_WIRE /\ fs.read_sum
  /\ fs.kind = "computed" /\ fs.delta.xfer_checksum_seed = 7
  /\ fs.status = "DataIntegrityError"
  /\ fs.reconstructed = <<7, 1>>

(***************************************************************************)
(* receive_data, token by token                                            *)
(***************************************************************************)
MaxTokens == 3

\* A receive_data that copies blength bytes for every block.
block_len_full(head, block_num) == head.blength

\* receive_data: the last block may be shorter.
block_len(head, block_num) ==
  IF block_num = head.count - 1 /\ head.remainder > 0
  THEN head.remainder ELSE head.blength

\* The basis files, the sum headers read_sum_head accepts and the tokens of
\* the stream: a one-byte literal, the end token and block matches.
RvBases == {<< >>, <<1, 2>>, <<1, 2, 3>>, <<1, 2, 3, 4, 5>>}
RvHeads ==
  {h \in {SumHead(count, blen, SHORT_SUM_LENGTH, remainder) :
            count \in 0..3, blen \in {0, 2, 3}, remainder \in 0..3} :
     h.remainder <= h.blength}
RvTokens == {1, 0, -1, -2, -3, -4}

\* The simple-mode bytes of a list of tokens.
RvWire(tokens) ==
  Concat([n \in 1..Len(tokens) |->
            IF tokens[n] > 0 THEN write_int(1) \o <<7>> ELSE write_int(tokens[n])])

ReceiveInit ==
  /\ PipelineIdle
  /\ WireIdle
  /\ TokenIdle
  /\ HandshakeIdle
  /\ ChoiceIdle
  /\ FlistIdle
  /\ MplexInIdle
  /\ MplexOutIdle
  /\ CodecIdle
  /\ FileSumIdle
  /\ SignatureIdle
  /\ LateIdle
  /\ pc = "receive"
  /\ \E basis_data \in RvBases, head \in RvHeads,
        tokens \in SeqsUpTo(RvTokens, MaxTokens) :
       rv = [pc |-> "loop", basis_data |-> basis_data, head |-> head,
             wire |-> RvWire(tokens), result |-> << >>, n |-> 0, token |-> 0,
             before |-> << >>, status |-> "none", returned |-> << >>]

\* The branch of receive_data for a negative token.
copy_block(r, token) ==
  With(-(token + 1), LAMBDA block_num :
    IF block_num < 0 \/ block_num >= r.head.count
    THEN [r EXCEPT !.pc = "failed", !.status = "ProtocolError"]
    ELSE With(<<block_num * r.head.blength, block_len(r.head, block_num)>>,
              LAMBDA range :
           IF range[1] + range[2] <= Len(r.basis_data)
           THEN [r EXCEPT !.result =
                   @ \o Slice(r.basis_data, range[1], range[1] + range[2])]
           ELSE [r EXCEPT !.pc = "failed", !.status = "ProtocolError"]))

\* One iteration of "while True" in receive_data; the end token leaves the
\* loop and returns bytes(result).
ReceiveToken ==
  /\ pc = "receive"
  /\ rv.pc = "loop"
  /\ rv' = With(recv_token_simple(rv.wire), LAMBDA t :
             IF t.eof
             THEN [rv EXCEPT !.pc = "failed", !.status = "EOFError",
                             !.n = @ + 1, !.token = 0, !.before = rv.result]
             ELSE With([rv EXCEPT !.wire = t.rest, !.n = @ + 1,
                                  !.token = t.token, !.before = rv.result],
                       LAMBDA r :
                    IF t.token = 0
                    THEN [r EXCEPT !.pc = "returned", !.status = "ok",
                                   !.returned = r.result]
                    ELSE IF t.token > 0
                    THEN [r EXCEPT !.result = @ \o t.data]
                    ELSE copy_block(r, t.token)))
  /\ UNCHANGED <<pc, receive_frame>>

ReceiveNext == ReceiveToken

ReceiveSpec == ReceiveInit /\ [][ReceiveNext]_vars

\* C21: for every negative token, block_num = -token - 1; if block_num is
\* not in [0, count) or the block's range runs past the end of the basis the
\* call fails with ProtocolError, nothing was copied for the token and nothing
\* is returned; otherwise exactly basis[block_num * blength, + length) is
\* appended, length being remainder for the last block when remainder > 0
\* and blength otherwise.
C21_TokenValidated ==
  pc = "receive" /\ rv.n > 0 /\ rv.token < 0 =>
    LET block_num == -rv.token - 1
        length == IF block_num = rv.head.count - 1 /\ rv.head.remainder > 0
                  THEN rv.head.remainder ELSE rv.head.blength
        first == block_num * rv.head.blength
    IN  IF \/ block_num \notin 0..(rv.head.count - 1)
           \/ first + length > Len(rv.basis_data)
        THEN /\ rv.pc = "failed" /\ rv.status = "ProtocolError"
             /\ rv.result = rv.before
             /\ rv.returned = << >>
        ELSE /\ rv.pc = "loop" /\ rv.status = "none"
             /\ rv.result = rv.before \o [j \in 1..length |-> rv.basis_data[first + j]]

\* A block inside [0, count) whose range runs past the basis, refused after
\* an earlier block was copied.
C21_Witness ==
  /\ pc = "receive" /\ rv.pc = "failed" /\ rv.status = "ProtocolError"
  /\ rv.token = -2 /\ rv.head.count = 3
  /\ rv.before = <<1, 2>>
  /\ Len(rv.basis_data) = 3

(***************************************************************************)
(* The peer's protocol version                                             *)
(***************************************************************************)
\* ProtocolVersionManager.negotiate_protocol with desired_protocol and
\* remote_sub = 0: the negotiated version, or the exception raised.
negotiate_protocol(desired_protocol, remote_version) ==
  With(IF remote_version > desired_protocol THEN desired_protocol
       ELSE IF remote_version < desired_protocol
       THEN remote_version - (IF SUBPROTOCOL_VERSION # 0 THEN 1 ELSE 0)
       ELSE desired_protocol,
       LAMBDA negotiated_protocol :
         IF negotiated_protocol < MIN_PROTOCOL_VERSION
            \/ negotiated_protocol > MAX_PROTOCOL_VERSION
         THEN [status |-> "ProtocolError", negotiated |-> 0]
         ELSE [status |-> "ok", negotiated |-> negotiated_protocol])

\* C22: a side that has read a peer version below MIN_PROTOCOL_VERSION or
\* above MAX_PROTOCOL_VERSION has raised ProtocolMismatchError and holds no
\* negotiated result, in setup_protocol_wire and in negotiate_protocol.
C22_VersionMismatch ==
  pc = "handshake" =>
    \A p \in Sides :
      /\ hs[p].pc \notin {"start", "read_proto"}
      /\ \/ hs[p].remote_proto < MIN_PROTOCOL_VERSION
         \/ hs[p].remote_proto > MAX_PROTOCOL_VERSION
      => /\ hs[p].pc = "ProtocolMismatchError"
         /\ hs[p].negotiated = 0
         /\ negotiate_protocol(hs[p].local_proto, hs[p].remote_proto).status
              = "ProtocolMismatchError"

(***************************************************************************)
(* Frames whose tag is not a message code                                  *)
(***************************************************************************)
MSG_ERROR_EXIT == 17
MaxTagFrames == 2

\* The tags class MSG defines.
MsgTags == MSG_DATA..MSG_ERROR_EXIT

\* Frames with the high bytes 25, 0 and 255, and three with tags of MSG.
TagFrames ==
  {Frame(MSG_ERROR_EXIT + 1, Runs(<<9>>)), Frame(0 - MPLEX_BASE, << >>),
   Frame(255 - MPLEX_BASE, Runs(<<9>>)),
   Frame(MSG_DATA, Runs(<<5>>)), Frame(MSG_INFO, Runs(<<9>>)),
   Frame(MSG_EOF, << >>)}

\* A multiplexed input on which the frames have arrived already.
MplexTagInit ==
  /\ PipelineIdle
  /\ WireIdle
  /\ TokenIdle
  /\ HandshakeIdle
  /\ ChoiceIdle
  /\ FlistIdle
  /\ MplexOutIdle
  /\ CodecIdle
  /\ FileSumIdle
  /\ ReceiveIdle
  /\ SignatureIdle
  /\ LateIdle
  /\ pc = "mplex_in"
  /\ \E transport \in {"sock", "fd"}, closed \in BOOLEAN,
        frames \in SeqsUpTo(TagFrames, MaxTagFrames) :
       mx = [transport |-> transport,
             raw |-> Concat([n \in 1..Len(frames) |-> frame_bytes(frames[n])]),
             closed |-> closed,
             in_data |-> << >>, in_msgs |-> << >>, in_eof |-> FALSE,
             eof_consumed |-> FALSE, restarted |-> FALSE, arrived |-> frames,
             returned |-> << >>, taken |-> << >>, delivered |-> << >>,
             calls |-> 0,
             last |-> [call |-> "none", status |-> "none", after_eof |-> FALSE]]

MplexTagNext == ReadBytes \/ RecvMsg

MplexTagSpec == MplexTagInit /\ [][MplexTagNext]_vars

\* C23: a received frame whose tag is not one of MSG is rejected with
\* ProtocolError: the call that takes it off the stream raises
\* ProtocolError, and no such frame is queued as a control message or
\* returned by recv_msg.
C23_TagRejected ==
  pc = "mplex_in" =>
    /\ \A n \in 1..Len(mx.in_msgs) : mx.in_msgs[n].tag \in MsgTags
    /\ \A n \in 1..Len(mx.delivered) : mx.delivered[n].tag \in MsgTags
    /\ mx.calls = 1 /\ mx.arrived # << >> /\ mx.arrived[1].tag \notin MsgTags
         => mx.last.status = "ProtocolError"

(***************************************************************************)
(* Signatures: generate_signature and generate_signature_streaming         *)
(***************************************************************************)
MaxSigLen == 7
SigBlockSizes == {1, 2, 3}

\* DataSource.read_chunk(size) at a position of the data.
read_chunk(data, position, size) == Slice(data, position, position + size)

SignatureInit ==
  /\ PipelineIdle
  /\ WireIdle
  /\ TokenIdle
  /\ HandshakeIdle
  /\ ChoiceIdle
  /\ FlistIdle
  /\ MplexInIdle
  /\ MplexOutIdle
  /\ CodecIdle
  /\ FileSumIdle
  /\ ReceiveIdle
  /\ LateIdle
  /\ pc = "signature"
  /\ \E data \in SeqsUpTo(ByteVals, MaxSigLen), block_size \in SigBlockSizes :
       sg = [pc |-> "chunks", data |-> data, block_size |-> block_size,
             built |-> FALSE, signature |-> generate_signature(<< >>, block_size),
             position |-> 0, offset |-> 0, block_index |-> 0, blocks |-> << >>,
             streamed |-> generate_signature(<< >>, block_size)]

\* signature = engine.generate_signature(file_data)
GenerateSignature ==
  /\ pc = "signature"
  /\ ~sg.built
  /\ sg' = [sg EXCEPT !.built = TRUE,
                      !.signature = generate_signature(sg.data, sg.block_size)]
  /\ UNCHANGED <<pc, signature_frame>>

\* One iteration of "while True" in generate_signature_streaming: a block
\* is yielded, or the generator ends and generate_signature_from_file
\* builds the signature from the blocks.
SignatureStreamingStep ==
  /\ pc = "signature"
  /\ sg.pc = "chunks"
  /\ sg' = With(read_chunk(sg.data, sg.position, sg.block_size), LAMBDA chunk :
             IF chunk = << >>
             THEN [sg EXCEPT !.pc = "streamed",
                             !.streamed = [block_size |-> sg.block_size,
                                           file_size |-> Len(sg.data),
                                           num_blocks |-> Len(sg.blocks),
                                           blocks |-> sg.blocks]]
             ELSE [sg EXCEPT !.position = @ + Len(chunk),
                             !.blocks = Append(@,
                               [weak_checksum |-> rolling_checksum(chunk, 0, Len(chunk)),
                                strong_checksum |-> strong_checksum(chunk),
                                offset |-> sg.offset,
                                length |-> Len(chunk)]),
                             !.offset = @ + Len(chunk),
                             !.block_index = @ + 1])
  /\ UNCHANGED <<pc, signature_frame>>

SignatureNext == GenerateSignature \/ SignatureStreamingStep

SignatureSpec == SignatureInit /\ [][SignatureNext]_vars

\* The blocks of a signature over F bytes with block length b: block i at
\* offset i * b, every block but the last of length b, the last of length
\* 1..b, the lengths summing to F, num_blocks blocks, none when F = 0.
SignatureShape(sig, F, b) ==
  /\ sig.num_blocks = Len(sig.blocks)
  /\ \A n \in 1..Len(sig.blocks) :
       /\ sig.blocks[n].offset = (n - 1) * b
       /\ n < Len(sig.blocks) => sig.blocks[n].length = b
       /\ sig.blocks[n].length \in 1..b
  /\ SumSeq([n \in 1..Len(sig.blocks) |-> sig.blocks[n].length]) = F
  /\ F = 0 => sig.blocks = << >>

\* C24: every signature built by generate_signature or by
\* generate_signature_streaming over F bytes with block length b has block
\* i at offset i * b, all blocks but the last of length b, the last of
\* length in [1, b], lengths that sum to F, num_blocks equal to the number of
\* blocks, and no block when F = 0.
C24_SignatureShape ==
  pc = "signature" =>
    /\ sg.built => SignatureShape(sg.signature, Len(sg.data), sg.block_size)
    /\ sg.pc = "streamed" =>
         /\ SignatureShape(sg.streamed, Len(sg.data), sg.block_size)
         /\ sg.streamed = sg.signature \/ ~sg.built

\* Both builders done on a file of three blocks whose last block is short.
C24_Witness ==
  /\ pc = "signature" /\ sg.built /\ sg.pc = "streamed"
  /\ Len(sg.data) = 7 /\ sg.block_size = 3
  /\ Len(sg.streamed.blocks) = 3 /\ sg.signature.blocks[3].length = 1

(***************************************************************************)
(* Properties of the matcher loop                                          *)
(***************************************************************************)
\* C25 as stated: with a signature of 0 blocks the matcher emits a single
\* LITERAL containing the whole new file, for every new file.
C25_Original ==
  Delivered /\ signature.num_blocks = 0 =>
    /\ Len(instructions) = 1
    /\ IsLiteral(instructions[1])
    /\ instructions[1].offset = 0
    /\ instructions[1].data = new_file_data

\* C25, amended: with a signature of 0 blocks the loop is not entered; the
\* delta of a non-empty new file is a single LITERAL at offset 0 holding the
\* whole file, and the delta of the empty new file has no instruction.
C25_EmptySignature ==
  /\ pc = "loop" /\ signature.num_blocks = 0 =>
       offset = 0 /\ instructions = << >> /\ ~(offset < end /\ k > 0)
  /\ Delivered /\ signature.num_blocks = 0 =>
       IF file_len > 0
       THEN /\ Len(instructions) = 1
            /\ IsLiteral(instructions[1])
            /\ instructions[1].offset = 0
            /\ instructions[1].data = new_file_data
       ELSE instructions = << >>

\* The delta of a new file of MaxNewLen bytes against the empty basis.
C25_Witness ==
  /\ pc = "done" /\ signature.num_blocks = 0
  /\ file_len = MaxNewLen
  /\ Len(instructions) = 1

\* C26: at the start of every iteration of the matcher loop the window lies
\* inside the new file and (s1, s2) is the weak checksum of the window
\* computed from scratch, whichever steps came before.
C26_WindowChecksum ==
  pc = "loop" /\ offset < end /\ k > 0 =>
    /\ offset + k <= file_len
    /\ combine_checksum(s1, s2) = rolling_checksum(new_file_data, offset, k)
    /\ <<s1, s2>> = RollLoop(new_file_data, offset, k, 0, 0, 0)

\* An iteration that starts after a slide, a shrink at the end of the file
\* and an accepted match found in updating-basis mode.
C26_Witness ==
  /\ pc = "loop" /\ offset < end /\ k > 0
  /\ updating_basis_file
  /\ k < blength /\ lit_start < offset
  /\ \E n \in 1..Len(instructions) : IsMatch(instructions[n])

(***************************************************************************)
(* generate_delta alone, on basis files long enough for a second full      *)
(* block: the aligned path of an in-place update can then move the offset  *)
(***************************************************************************)
MaxMatcherBasisLen == 4
MaxMatcherNewLen == 5

MatcherSpecInit ==
  /\ basis \in SeqsUpTo(ByteVals, MaxMatcherBasisLen)
  /\ new_file_data \in SeqsUpTo(ByteVals, MaxMatcherNewLen)
  /\ updating_basis_file \in BOOLEAN
  /\ \E block_size \in BlockSizes :
       /\ sum2_collision \in {<< >>} \cup WeakCollisions(basis, new_file_data, block_size)
       /\ signature = generate_signature(basis, block_size)
  /\ pc = "loop"
  /\ MatcherInit
  /\ result = << >>
  /\ WireIdle
  /\ TokenIdle
  /\ HandshakeIdle
  /\ ChoiceIdle
  /\ FlistIdle
  /\ ExtraIdle

MatcherNext == HashSearchStep \/ FinishDelta

MatcherSpec == MatcherSpecInit /\ [][MatcherNext]_vars

\* An iteration of the loop that accepts no match: no MATCH is appended and
\* the loop goes on.
NoMatchStep ==
  /\ pc = "loop" /\ offset < end /\ k > 0
  /\ pc' = "loop"
  /\ \/ instructions' = instructions
     \/ /\ Len(instructions') = Len(instructions) + 1
        /\ IsLiteral(instructions'[Len(instructions')])

\* C27 as stated: on a no-match step with offset + k >= N the window is
\* shrunk with the shrink update, k becomes k - 1 and offset is unchanged.
C27_Original ==
  [][NoMatchStep /\ offset + k >= file_len =>
       /\ k' = k - 1
       /\ offset' = offset
       /\ s1' = (s1 - At(new_file_data, offset)) % M16
       /\ s2' = (s2 - k * At(new_file_data, offset)) % M16]_vars

\* C27, amended: on a no-match step with offset + k >= N the byte at offset
\* leaves the checksum by the shrink update, k becomes k - 1 and offset
\* moves one byte on: the window loses its first byte and still ends at N.
C27_ShrinkStep ==
  [][NoMatchStep /\ offset + k >= file_len =>
       /\ k' = k - 1
       /\ offset' = offset + 1
       /\ offset' + k' = file_len
       /\ s1' = (s1 - At(new_file_data, offset)) % M16
       /\ s2' = (s2 - k * At(new_file_data, offset)) % M16]_vars

\* The loop after a shrink: a window shorter than a block that ends at N,
\* with unmatched bytes behind it.
C27_Witness ==
  /\ pc = "loop" /\ offset < end
  /\ k >= 1 /\ k < blength
  /\ lit_start < offset
  /\ offset + k = file_len
  /\ s1 # 0

\* The number of steps generate_delta can still take: one per byte ahead of
\* offset, the final flush, and nothing once it has returned.
MatcherVariant ==
  IF pc = "loop" THEN file_len - offset + 2 ELSE IF pc = "flush" THEN 1 ELSE 0

\* C28: matching never fails and always terminates: while generate_delta
\* has not returned, the loop body or the final flush applies, every step
\* lowers a non-negative count of the steps left (every iteration of the
\* loop strictly increases offset, which never exceeds N) and leads to the
\* loop, the flush or the return, and every iteration starts with
\* 0 <= offset < N and offset + k <= N, so that the bytes read (new[offset],
\* new[offset + k] when offset + k < N, the window and the aligned window)
\* have indices in [0, N).
C28_MatcherProgress ==
  /\ [](Matching =>
          /\ 0 <= offset /\ offset <= file_len
          /\ MatcherVariant > 0
          /\ \/ pc = "loop" /\ offset < end /\ k > 0
             \/ pc = "flush" \/ (pc = "loop" /\ ~(offset < end /\ k > 0))
          /\ pc = "loop" /\ offset < end /\ k > 0 =>
               offset < file_len /\ offset + k <= file_len)
  /\ [][Matching =>
          /\ pc' \in {"loop", "flush", "done"}
          /\ MatcherVariant' < MatcherVariant
          /\ MatcherVariant' >= 0
          /\ pc = "loop" /\ offset < end /\ k > 0 =>
               offset' > offset /\ offset' <= file_len]_vars

\* A delta returned in updating-basis mode after an offset jump: a MATCH
\* follows a literal and the aligned block is marked same_offset.
C28_Witness ==
  /\ pc = "done" /\ updating_basis_file
  /\ file_len = MaxMatcherNewLen
  /\ Len(instructions) >= 3
  /\ same_offset # {}

\* C29: in updating-basis mode a block index enters same_offset only in a
\* step that appends a MATCH for that block at the block's own basis
\* offset; in particular a jump to aligned_offset whose strong digest does
\* not re-verify marks nothing.
C29_SameOffsetAligned ==
  [][updating_basis_file /\ pc = "loop" =>
       \A i \in same_offset' \ same_offset :
         /\ Len(instructions') > Len(instructions)
         /\ LET ins == instructions'[Len(instructions')]
            IN  /\ IsMatch(ins)
                /\ ins.block_index = i
                /\ ins.offset = Blk(signature, i).offset]_vars

\* C30: in updating-basis mode every MATCH the matcher appends references a
\* block whose stored basis offset is >= the match's offset in the new
\* file, unless the block was in same_offset before the step, whichever of
\* the first verified candidate, the want_i promotion and the aligned path
\* chose it.
C30_NoOverwrittenBlock ==
  [][updating_basis_file /\ pc = "loop"
       /\ Len(instructions') > Len(instructions)
       /\ IsMatch(instructions'[Len(instructions')]) =>
       LET ins == instructions'[Len(instructions')]
       IN  /\ match_path' \in {"candidate", "want_i", "aligned"}
           /\ \/ Blk(signature, ins.block_index).offset >= ins.offset
              \/ ins.block_index \in same_offset]_vars

\* An in-place delta that matched a block behind the match's offset: the
\* block had been found at its own offset before.
C30_Witness ==
  /\ updating_basis_file
  /\ pc \in {"loop", "flush", "done"}
  /\ \E n \in 1..Len(instructions) :
       /\ IsMatch(instructions[n])
       /\ instructions[n].block_index \in same_offset
       /\ Blk(signature, instructions[n].block_index).offset < instructions[n].offset
       /\ \E j \in 1..(n - 1) :
            /\ IsMatch(instructions[j])
            /\ instructions[j].block_index = instructions[n].block_index
            /\ instructions[j].offset = Blk(signature, instructions[j].block_index).offset

(***************************************************************************)
(* The sync marker of a zlib / zlibx token stream.                         *)
(***************************************************************************)

\* What the sender's deflater produced over the send_token calls: the
\* output of compress and of flush(Z_SYNC_FLUSH), marker included, before
\* _send_deflated_data strips and cuts it.
RECURSIVE DeflaterOutput(_, _, _)
DeflaterOutput(mode, t, calls) ==
  IF calls = << >> THEN << >>
  ELSE LET r == send_token_compressed(mode, t, Head(calls)[1], Head(calls)[2])
       IN  r.comp \o DeflaterOutput(mode, r.tx, Tail(calls))

\* The sender state of __init__.
FreshTx ==
  [last_token |-> -1, run_start |-> 0, last_run_end |-> 0,
   flush_pending |-> FALSE, z |-> << >>]

\* C31: in a zlib or zlibx token stream the bytes given to the receiver's
\* inflater are, at every moment, the start of the bytes the sender's
\* deflater produced, and all of them once the end token is received: the
\* marker 00 00 ff ff goes back in where it was stripped and nowhere else,
\* also when a flushed output is cut into several DEFLATED_DATA segments.
C31_MarkerReinjected ==
  pc \in {"receiving", "tok_done"} /\ do_compression \in {"zlib", "zlibx"} =>
    /\ IsSeqPrefix(rx.fed, DeflaterOutput(do_compression, FreshTx, sent_calls))
    /\ pc = "tok_done" =>
         /\ recv_status = "ok"
         /\ rx.fed = DeflaterOutput(do_compression, FreshTx, sent_calls)

(***************************************************************************)
(* Order of data and control frames on a multiplexed output.               *)
(***************************************************************************)

\* The payload bytes of the DATA frames among frames[lo..hi].
RECURSIVE DataBetween(_, _, _)
DataBetween(frames, lo, hi) ==
  IF lo > hi THEN << >>
  ELSE (IF frames[lo].tag = MSG_DATA THEN frames[lo].payload ELSE << >>)
       \o DataBetween(frames, lo + 1, hi)

\* The data of the write_bytes calls before and after call number c: the
\* bytes of call n are runs of the value n.
WrittenBefore(c) == SelectSeq(mo.written, LAMBDA r : r[1] < c)
WrittenAfter(c) == SelectSeq(mo.written, LAMBDA r : r[1] > c)

\* C32: for every send_msg that wrote its frame, a reader of the stream
\* finds the control frame with, in the DATA frames before it, exactly the
\* bytes passed to write_bytes before the send_msg, and in the DATA frames
\* after it (and the bytes still pending) exactly the bytes passed to
\* write_bytes after it.
C32_ControlOrdered ==
  pc = "mplex_out" =>
    \A j \in 1..Len(mo.frames) :
      mo.frames[j].tag # MSG_DATA =>
        /\ header_code(mo.frames[j].header) = mo.frames[j].tag
        /\ header_len(mo.frames[j].header) = RLen(mo.frames[j].payload)
        /\ With(ParseFrames(mo.raw), LAMBDA P :
             /\ j <= Len(P)
             /\ P[j].tag = mo.frames[j].tag
             /\ RNorm(DataBetween(P, 1, j - 1)) = WrittenBefore(mo.frames[j].call)
             /\ RNorm(DataBetween(P, j + 1, Len(P)) \o mo.out_data)
                  = WrittenAfter(mo.frames[j].call))

(***************************************************************************)
(* ChecksumEngine._generate_delta_streaming                                *)
(*                                                                         *)
(* sm holds the locals of one call on the file new_file_data with the      *)
(* signature of the matcher above: the buffer buf of the bytes read and    *)
(* not dropped, whose first byte is at file offset buf_start, the position *)
(* pos of the source, the bytes acc given to the whole-file digest, and    *)
(* the matcher's own locals.  ChunkSize stands for CHUNK_SIZE and          *)
(* StreamChunkSize for Config.CHUNK_SIZE_STREAMING.                        *)
(***************************************************************************)
StreamChunkSize == 2
MaxStreamBasisLen == 4
MaxStreamNewLen == 4
MaxStreamTailBasisLen == 1
MaxStreamZeroBasisLen == 6

\* A start or stop index of a Python slice of a sequence of n items.
PyIdx(n, i) == IF i < 0 THEN Max(n + i, 0) ELSE Min(i, n)
\* buf[i0:i1]
PySlice(buf, i0, i1) == Slice(buf, PyIdx(Len(buf), i0), PyIdx(Len(buf), i1))
\* buf[i] raises IndexError outside -len .. len - 1
PyInRange(buf, i) == -Len(buf) <= i /\ i < Len(buf)
PyAt(buf, i) == IF i < 0 THEN buf[Len(buf) + i + 1] ELSE buf[i + 1]

StreamFresh ==
  [pc |-> "loop", status |-> "ok", buf |-> << >>, buf_start |-> 0,
   eof |-> FALSE, pos |-> 0, acc |-> << >>, offset |-> 0,
   k |-> Min(blength, file_len), s1 |-> 0, s2 |-> 0, lit_start |-> 0,
   want_i |-> 0, last_match |-> 0, aligned_offset |-> 0, aligned_i |-> 0,
   same_offset |-> {}, instructions |-> << >>, compactions |-> 0]

buf_end(m) == m.buf_start + Len(m.buf)

Failed(m, error) == [m EXCEPT !.pc = "failed", !.status = error]

\* ensure(needed_end): read until the buffer reaches needed_end
RECURSIVE ensure(_, _)
ensure(m, needed_end) ==
  LET need == Min(needed_end, file_len)
      target_end == Min(file_len, Max(need, buf_end(m) + StreamChunkSize))
      to_read == target_end - buf_end(m)
      chunk == read_chunk(new_file_data, m.pos, to_read)
  IN  IF m.eof \/ buf_end(m) >= need \/ to_read <= 0 THEN m
      ELSE IF chunk = << >> THEN [m EXCEPT !.eof = TRUE]
      ELSE ensure([m EXCEPT !.buf = @ \o chunk, !.pos = @ + Len(chunk),
                            !.acc = @ \o chunk],
                  needed_end)

\* slice_bytes(start_off, end_off); err is "Streaming buffer underflow"
slice_bytes(m, start_off, end_off) ==
  IF end_off <= start_off THEN [data |-> << >>, err |-> FALSE]
  ELSE IF start_off < m.buf_start \/ end_off > buf_end(m)
    THEN [data |-> << >>, err |-> TRUE]
  ELSE [data |-> PySlice(m.buf, start_off - m.buf_start, end_off - m.buf_start),
        err |-> FALSE]

\* flush_literal_range(start_off, end_off), from cur on
RECURSIVE flush_literal_range(_, _, _)
flush_literal_range(m, cur, end_off) ==
  IF cur >= end_off \/ m.status # "ok" THEN m
  ELSE With(ensure(m, Min(end_off, cur + ChunkSize)), LAMBDA e :
         With(slice_bytes(e, cur, Min(end_off, cur + ChunkSize)), LAMBDA sl :
           IF sl.err THEN Failed(e, "ProtocolError")
           ELSE flush_literal_range(
                  [e EXCEPT !.instructions = Append(@, DeltaLiteral(cur, sl.data))],
                  Min(end_off, cur + ChunkSize), end_off)))

\* A compaction that also drops the byte at lit_start.
maybe_compact_more(m) ==
  IF m.lit_start - m.buf_start >= Max(blength, StreamChunkSize)
  THEN [m EXCEPT !.buf = PySlice(@, m.lit_start - m.buf_start + 1, Len(@)),
                 !.buf_start = m.lit_start + 1,
                 !.compactions = @ + 1]
  ELSE m

\* maybe_compact(): drop the bytes below lit_start once they are at least
\* max(blength, CHUNK_SIZE_STREAMING)
maybe_compact(m) ==
  IF m.lit_start - m.buf_start >= Max(blength, StreamChunkSize)
  THEN [m EXCEPT !.buf = PySlice(@, m.lit_start - m.buf_start, Len(@)),
                 !.buf_start = @ + (m.lit_start - m.buf_start),
                 !.compactions = @ + 1]
  ELSE m

\* ensure(offset + k) and the checksum of the window from scratch
stream_window(m) ==
  With(ensure(m, m.offset + m.k), LAMBDA e :
    IF e.offset - e.buf_start < 0 \/ e.offset - e.buf_start + e.k > Len(e.buf)
    THEN Failed(e, "IndexError")
    ELSE With(rolling_checksum_optimized(e.buf, e.offset - e.buf_start, e.k),
              LAMBDA weak0 :
                [e EXCEPT !.s1 = checksum_components(weak0)[1],
                          !.s2 = checksum_components(weak0)[2]]))

\* The code of _generate_delta_streaming before its loop.
stream_init ==
  IF Min(blength, file_len) > 0 THEN stream_window(StreamFresh) ELSE StreamFresh

\* An accepted match at off1 for block j.
stream_match(m, j, off1) ==
  With(IF off1 > m.lit_start THEN flush_literal_range(m, m.lit_start, off1) ELSE m,
       LAMBDA f :
    IF f.status # "ok" THEN f
    ELSE With(maybe_compact(
                [f EXCEPT !.instructions = Append(@, DeltaMatch(j, off1, m.k)),
                          !.want_i = j + 1,
                          !.last_match = off1 + m.k,
                          !.offset = off1 + m.k,
                          !.lit_start = off1 + m.k]),
              LAMBDA c :
           IF c.offset >= file_len THEN [c EXCEPT !.pc = "flush"]
           ELSE IF Min(blength, file_len - c.offset) <= 0
             THEN [c EXCEPT !.k = Min(blength, file_len - c.offset), !.pc = "flush"]
           ELSE stream_window([c EXCEPT !.k = Min(blength, file_len - c.offset)])))

\* The early flush of the no-match branch and "offset += 1".
stream_advance(m) ==
  With(IF /\ m.offset - m.last_match >= blength + ChunkSize
          /\ end - m.offset > ChunkSize
          /\ m.offset - blength > m.lit_start
       THEN With(flush_literal_range(m, m.lit_start, m.offset - blength),
                 LAMBDA f :
                   IF f.status # "ok" THEN f
                   ELSE maybe_compact([f EXCEPT !.lit_start = m.offset - blength,
                                                !.last_match = m.offset - blength]))
       ELSE m,
       LAMBDA a : IF a.status # "ok" THEN a ELSE [a EXCEPT !.offset = @ + 1])

\* No match: slide or shrink the window by one byte.
stream_no_match(m) ==
  LET more == (m.offset + m.k) < file_len
      i == m.offset - m.buf_start
  IN  IF ~PyInRange(m.buf, i) \/ (more /\ ~PyInRange(m.buf, i + m.k))
      THEN Failed(m, "IndexError")
      ELSE With(IF more
                THEN rolling_update(PyAt(m.buf, i), PyAt(m.buf, i + m.k),
                                    m.s1, m.s2, m.k)
                ELSE shrink_update(PyAt(m.buf, i), m.s1, m.s2, m.k),
                LAMBDA slid :
                  stream_advance([m EXCEPT !.s1 = slid[1], !.s2 = slid[2],
                                           !.k = IF more THEN @ ELSE @ - 1]))

\* The lookup, the aligned path and the want_i promotion of one iteration,
\* on the window at m.offset; e is m after ensure(aligned_offset + l) when
\* the aligned window is read.
stream_choose(m, weak, strong, first) ==
  LET in_aligned == updating_basis_file /\ first # None
      steps == IF in_aligned THEN AlignSteps(m.aligned_offset, m.offset) ELSE 0
      al_offset == m.aligned_offset + steps * blength
      al_i == m.aligned_i + steps
      l == m.k
      aligned_ok ==
        /\ in_aligned
        /\ \/ m.offset = al_offset
           \/ weak = 0 /\ l = blength /\ al_offset + l <= file_len
        /\ al_i < signature.num_blocks
      take_aligned ==
        /\ aligned_ok
        /\ first # al_i
        /\ weak = Blk(signature, al_i).weak_checksum
        /\ l = Blk(signature, al_i).length
        /\ strong = Blk(signature, al_i).strong_checksum
      m1 == IF take_aligned THEN al_i ELSE first
      on_aligned == aligned_ok /\ m1 = al_i
      reverify == on_aligned /\ m.offset # al_offset /\ al_offset + l <= file_len
  IN  With(IF reverify THEN ensure(m, al_offset + l) ELSE m, LAMBDA e :
        With(IF reverify THEN slice_bytes(e, al_offset, al_offset + l)
             ELSE [data |-> << >>, err |-> FALSE], LAMBDA aligned_window :
          LET move == /\ reverify
                      /\ strong_checksum(aligned_window.data)
                           = Blk(signature, m1).strong_checksum
              off1 == IF move THEN al_offset ELSE m.offset
              strong1 == IF move THEN strong_checksum(aligned_window.data) ELSE strong
              same1 == IF on_aligned THEN m.same_offset \cup {m1} ELSE m.same_offset
              want1 == IF on_aligned THEN m1 ELSE m.want_i
              promote ==
                /\ m1 # None /\ m1 # want1
                /\ want1 < signature.num_blocks
                /\ \/ ~updating_basis_file
                   \/ NotBypassed(signature, same1, off1, want1)
                /\ weak = Blk(signature, want1).weak_checksum
                /\ strong1 = Blk(signature, want1).strong_checksum
          IN  IF aligned_window.err THEN Failed(e, "ProtocolError")
              ELSE IF m1 = None THEN stream_no_match(e)
              ELSE stream_match([e EXCEPT !.aligned_offset = al_offset,
                                          !.aligned_i = al_i,
                                          !.same_offset = same1],
                                IF promote THEN want1 ELSE m1, off1)))

\* One iteration of "while offset < end and k > 0".
stream_iter(m) ==
  With(ensure(m, m.offset + m.k + (IF m.offset + m.k < file_len THEN 1 ELSE 0)),
       LAMBDA e :
    With(combine_checksum(e.s1, e.s2), LAMBDA weak :
      With(lookup_indices(signature, weak, e.k), LAMBDA found :
        With(strong_checksum(PySlice(e.buf, e.offset - e.buf_start,
                                     e.offset - e.buf_start + e.k)),
             LAMBDA strong :
          stream_choose(e, weak, strong,
            IF found = << >> THEN None
            ELSE FirstVerified(
                   IF updating_basis_file
                   THEN SelectSeq(found, LAMBDA i :
                          NotBypassed(signature, e.same_offset, e.offset, i))
                   ELSE found,
                   strong))))))

\* The code after the loop: read the rest, flush the last literal.
stream_finish(m) ==
  With(ensure(m, file_len), LAMBDA e :
    With(IF e.lit_start < file_len
         THEN flush_literal_range(e, e.lit_start, file_len) ELSE e,
         LAMBDA f : IF f.status # "ok" THEN f ELSE [f EXCEPT !.pc = "done"]))

\* _generate_delta_streaming is called on the file that generate_delta has
\* just matched in memory.
StreamStart ==
  /\ pc = "done"
  /\ sm.pc = "none"
  /\ sm' = stream_init
  /\ UNCHANGED <<pc, stream_frame>>

StreamStep ==
  /\ pc = "done"
  /\ sm.pc = "loop"
  /\ sm.offset < end /\ sm.k > 0
  /\ sm' = stream_iter(sm)
  /\ UNCHANGED <<pc, stream_frame>>

StreamFinish ==
  /\ pc = "done"
  /\ sm.pc = "flush" \/ (sm.pc = "loop" /\ ~(sm.offset < end /\ sm.k > 0))
  /\ sm' = stream_finish(sm)
  /\ UNCHANGED <<pc, stream_frame>>

\* Files up to MaxStreamNewLen bytes against every basis, and longer files,
\* where a literal is flushed early and the aligned block is taken after a
\* compaction, against a short basis or a basis of zero bytes.
StreamInit ==
  /\ \/ /\ basis \in SeqsUpTo(ByteVals, MaxStreamBasisLen)
        /\ new_file_data \in SeqsUpTo(ByteVals, MaxStreamNewLen)
     \/ /\ basis \in SeqsUpTo(ByteVals, MaxStreamTailBasisLen)
                     \cup {[n \in 1..len |-> 0] : len \in 0..MaxStreamZeroBasisLen}
        /\ new_file_data \in SeqsUpTo(ByteVals, MaxNewLen)
  /\ updating_basis_file \in BOOLEAN
  /\ \E block_size \in BlockSizes :
       /\ sum2_collision \in {<< >>} \cup WeakCollisions(basis, new_file_data, block_size)
       /\ signature = generate_signature(basis, block_size)
  /\ pc = "loop"
  /\ MatcherInit
  /\ result = << >>
  /\ WireIdle
  /\ TokenIdle
  /\ HandshakeIdle
  /\ ChoiceIdle
  /\ FlistIdle
  /\ ExtraIdle

StreamNext ==
  HashSearchStep \/ FinishDelta \/ StreamStart \/ StreamStep \/ StreamFinish

StreamSpec == StreamInit /\ [][StreamNext]_vars

\* The content of a delta: its MATCH instructions and, byte by byte, what
\* its LITERAL instructions put at which offset of the new file.
RECURSIVE DeltaContent(_)
DeltaContent(instrs) ==
  IF instrs = << >> THEN << >>
  ELSE (IF IsMatch(Head(instrs))
        THEN <<<<"match", Head(instrs).block_index, Head(instrs).offset,
                 Head(instrs).length>>>>
        ELSE [n \in 1..Len(Head(instrs).data) |->
                <<"byte", Head(instrs).offset + n - 1, Head(instrs).data[n]>>])
       \o DeltaContent(Tail(instrs))

StreamReturned == pc = "done" /\ sm.pc \in {"done", "failed"}

\* The part of C33 that compares the two deltas.
StreamSameContent ==
  /\ sm.pc = "done"
  /\ DeltaContent(sm.instructions) = DeltaContent(instructions)
  /\ \A n \in 1..Len(sm.instructions) :
       IsLiteral(sm.instructions[n]) =>
         /\ Len(sm.instructions[n].data) \in 1..ChunkSize
         /\ sm.instructions[n].length = Len(sm.instructions[n].data)

\* C33: _generate_delta_streaming emits the MATCH instructions of
\* generate_delta in the same order, its LITERAL instructions carry the same
\* bytes for the same offsets in pieces of at most CHUNK_SIZE bytes, and
\* applying either delta to the basis gives the new file.
C33_StreamingSameDelta ==
  StreamReturned =>
    /\ StreamSameContent
    /\ apply_delta(basis, blength, sm.instructions) = new_file_data
    /\ apply_delta(basis, blength, instructions) = new_file_data

\* C34: in the streaming matcher buf_start <= lit_start <= offset at every
\* step, the buffer holds the bytes of the new file from buf_start to what
\* has been read, no read leaves the buffer ("Streaming buffer underflow" is
\* never raised), and the whole-file accumulator has been fed the bytes read
\* so far once each and in order: the whole file when the matcher returns.
C34_StreamBufferCovers ==
  sm.pc # "none" =>
    /\ sm.pc # "failed" /\ sm.status = "ok"
    /\ 0 <= sm.buf_start /\ sm.buf_start <= sm.lit_start
    /\ sm.lit_start <= sm.offset /\ sm.offset <= file_len
    /\ sm.buf = Slice(new_file_data, sm.buf_start, sm.pos)
    /\ sm.acc = Slice(new_file_data, 0, sm.pos)
    /\ sm.pc = "loop" /\ sm.offset < end /\ sm.k > 0 => sm.offset + sm.k <= sm.pos
    /\ sm.pc = "done" => sm.acc = new_file_data

C34_Witness ==
  /\ sm.pc = "done"
  /\ sm.compactions > 0
  /\ sm.buf_start > 0
  /\ \E n \in 1..Len(sm.instructions) : IsLiteral(sm.instructions[n])
  /\ \E n \in 1..Len(sm.instructions) : IsMatch(sm.instructions[n])

(***************************************************************************)
(* C35: no side of the handshake is left blocked.                          *)
(***************************************************************************)

\* A side waits in a read for bytes that are never sent: its peer has
\* returned, or waits itself.
HsBlocked(p) ==
  /\ HsWaits(p)
  /\ hs[Peer(p)].pc = "done" \/ HsWaits(Peer(p))

\* Every read so far consumed bytes its peer wrote in the same step.
HsReadsInStep ==
  \A p \in Sides : \A n \in 1..Len(hs[p].reads) :
    hs[p].reads[n].from = {hs[p].reads[n].step}

SameLists ==
  /\ (opts["server"].checksum_choice = NoChoice) = (opts["client"].checksum_choice = NoChoice)
  /\ (opts["server"].compress /\ opts["server"].compress_choice = NoChoice)
       = (opts["client"].compress /\ opts["client"].compress_choice = NoChoice)

\* The handshake of these versions and flags exchanges name lists.
ListsExchanged ==
  /\ Min(hs["server"].local_proto, hs["client"].local_proto) >= 30
  /\ HasVarintFlag(server_compat_flags(opts["server"], client_info))

RECURSIVE BeforeEof(_)
BeforeEof(frames) ==
  IF frames = << >> \/ Head(frames).tag = MSG_EOF THEN << >>
  ELSE <<Head(frames)>> \o BeforeEof(Tail(frames))

\* C36: when read_bytes fails because the EOF frame has been taken off the
\* stream, by read_bytes or by recv_msg, every DATA payload byte that
\* arrived before that frame has been handed to a read_bytes call.
C36_DataBeforeEofDelivered ==
  /\ pc = "mplex_in" /\ ~mx.restarted
  /\ mx.last.call = "read_bytes" /\ mx.last.status = "EOFError" /\ mx.in_eof
  => RIsPrefix(RNorm(DataOf(BeforeEof(mx.arrived))), mx.taken)

(***************************************************************************)
(* The match statistics of the module: _global_false_alarms,               *)
(* _global_hash_hits, _global_matches and the _total_* counters are module *)
(* variables that every generate_delta run of the process writes when      *)
(* Config.COLLECT_STATS is set.  Sessions are threads of one process; a    *)
(* step of a run is one statement.                                         *)
(***************************************************************************)

StatSessions == {"s1", "s2"}
StatFields == <<"false_alarms", "hash_hits", "matches">>

\* The counts a run of the matcher can end with in its local variables.
StatRuns ==
  {[false_alarms |-> 0, hash_hits |-> 0, matches |-> 0, literal_data |-> 3],
   [false_alarms |-> 0, hash_hits |-> 1, matches |-> 1, literal_data |-> 0],
   [false_alarms |-> 1, hash_hits |-> 2, matches |-> 1, literal_data |-> 2]}

NoStats == [false_alarms |-> 0, hash_hits |-> 0, matches |-> 0, literal_data |-> 0]

StatsInit ==
  /\ PipelineIdle
  /\ WireIdle
  /\ TokenIdle
  /\ HandshakeIdle
  /\ ChoiceIdle
  /\ FlistIdle
  /\ MplexInIdle
  /\ MplexOutIdle
  /\ CodecIdle
  /\ FileSumIdle
  /\ ReceiveIdle
  /\ SignatureIdle
  /\ StreamIdle
  /\ IOBufferIdle
  /\ pc = "stats"
  /\ gs = [pc |-> "stats",
           global |-> [f \in {"false_alarms", "hash_hits", "matches"} |-> 0],
           total |-> NoStats,
           run |-> [s \in StatSessions |->
                      [pc |-> "start", n |-> 0, local |-> NoStats, added |-> NoStats]]]

\* reset_match_stats() at the start of generate_delta
reset_match_stats(s) ==
  /\ pc = "stats"
  /\ gs.run[s].pc = "start"
  /\ gs' = [gs EXCEPT !.global = [f \in DOMAIN @ |-> 0], !.run[s].pc = "search"]
  /\ UNCHANGED <<pc, stats_frame>>

\* The matching loop, which counts in local variables.
StatsSearch(s) ==
  /\ pc = "stats"
  /\ gs.run[s].pc = "search"
  /\ \E local \in StatRuns :
       gs' = [gs EXCEPT !.run[s].local = local, !.run[s].pc = "publish",
                        !.run[s].n = 1]
  /\ UNCHANGED <<pc, stats_frame>>

\* _global_false_alarms = local_false_alarms, then _global_hash_hits, then
\* _global_matches: one assignment a step.
StatsPublish(s) ==
  /\ pc = "stats"
  /\ gs.run[s].pc = "publish"
  /\ LET f == StatFields[gs.run[s].n]
     IN  gs' = [gs EXCEPT !.global[f] = gs.run[s].local[f],
                          !.run[s].n = IF @ = Len(StatFields) THEN 1 ELSE @ + 1,
                          !.run[s].pc = IF gs.run[s].n = Len(StatFields)
                                        THEN "accumulate" ELSE @]
  /\ UNCHANGED <<pc, stats_frame>>

\* accumulate_match_stats(literal_data=literal_bytes): the three totals take
\* the module's per-file counts, the fourth the argument; one statement a
\* step.
accumulate_match_stats(s) ==
  /\ pc = "stats"
  /\ gs.run[s].pc = "accumulate"
  /\ IF gs.run[s].n <= Len(StatFields)
       THEN LET f == StatFields[gs.run[s].n]
            IN  gs' = [gs EXCEPT !.total[f] = @ + gs.global[f],
                                 !.run[s].added[f] = gs.global[f],
                                 !.run[s].n = @ + 1]
     ELSE gs' = [gs EXCEPT !.total.literal_data = @ + gs.run[s].local.literal_data,
                           !.run[s].added.literal_data = gs.run[s].local.literal_data,
                           !.run[s].pc = "done"]
  /\ UNCHANGED <<pc, stats_frame>>

StatsNext ==
  \E s \in StatSessions :
    \/ reset_match_stats(s)
    \/ StatsSearch(s)
    \/ StatsPublish(s)
    \/ accumulate_match_stats(s)

StatsSpec == StatsInit /\ [][StatsNext]_vars

RECURSIVE SumOver(_, _)
SumOver(sessions, f) ==
  IF sessions = {} THEN 0
  ELSE LET s == CHOOSE x \in sessions : TRUE
       IN  gs.run[s].local[f] + SumOver(sessions \ {s}, f)

\* C37: what a run has added to the totals is that run's own counts, and
\* when every run has returned the totals are the sums over the runs.
C37_TotalsAreSums ==
  pc = "stats" =>
    /\ \A s \in StatSessions :
         gs.run[s].pc = "done" => gs.run[s].added = gs.run[s].local
    /\ (\A s \in StatSessions : gs.run[s].pc = "done") =>
         \A f \in DOMAIN gs.total : gs.total[f] = SumOver(StatSessions, f)

(***************************************************************************)
(* C38: the flags word of a file entry in byte mode.                       *)
(***************************************************************************)

\* What _send_file_entry_wire does entry by entry: the flags it tests, the
\* bytes it writes and the previous-entry context it leaves.
RECURSIVE SendSteps(_, _, _, _, _)
SendSteps(entries, o, state, protocol_version, xfer_flags_as_varint) ==
  IF entries = << >> THEN << >>
  ELSE With(send_file_entry_wire(Head(entries), o, state, protocol_version,
                                 xfer_flags_as_varint),
            LAMBDA e :
              IF e.status # "ok" THEN << >>
              ELSE <<[xflags |-> entry_flag_bytes(
                                   entry_xflags(Head(entries), o, state,
                                                protocol_version),
                                   Head(entries).is_dir, protocol_version,
                                   xfer_flags_as_varint).xflags,
                      used |-> Len(e.bytes), state |-> e.state]>>
                   \o SendSteps(Tail(entries), o, e.state, protocol_version,
                                xfer_flags_as_varint))

\* What recv_file_list_wire does entry by entry: the flags it reads, the
\* bytes it consumes and the previous-entry context it leaves.
RECURSIVE RecvSteps(_, _, _, _, _)
RecvSteps(rd, o, state, protocol_version, xfer_flags_as_varint) ==
  With(recv_flags(rd, protocol_version, xfer_flags_as_varint),
       LAMBDA f :
         IF f.status # "ok" \/ f.last THEN << >>
         ELSE With(recv_file_entry_wire(Reader(f.buf), o, state, protocol_version,
                                        f.value),
                   LAMBDA e :
                     IF e.status # "ok" THEN << >>
                     ELSE <<[xflags |-> f.value,
                             used |-> Len(rd.buf) - Len(e.buf),
                             state |-> e.state]>>
                          \o RecvSteps(Reader(e.buf), o, e.state, protocol_version,
                                       xfer_flags_as_varint)))

\* C38: with the flags sent as one or two bytes, the sender writes every
\* entry, the receiver reads for every entry the flags the sender tested
\* and the bytes the sender wrote for it, and leaves the same previous-entry
\* context as the sender.
C38_ByteFlagsCarried ==
  pc = "flist_done" /\ ~fl.xfer_flags_as_varint =>
    /\ fl.send_status = "ok" /\ fl.recv_status = "ok"
    /\ SendSteps(fl.entries, fl.opts, FlistXferState, fl.protocol_version, FALSE)
         = RecvSteps(Reader(fl.wire), fl.opts, FlistXferState,
                     fl.protocol_version, FALSE)
    /\ Len(fl.received) = Len(fl.entries)

\* C39: rolling_checksum_optimized(D, i, k) returns the value that
\* rolling_checksum(D, i, k) returns, for every window: one whose length is
\* a multiple of four, one that is not, and the empty one.  Both return
\* (s1 & 0xFFFF) | (s2 << 16), so the values are equal when s1 and s2 are.
C39_OptimizedSameChecksum ==
  pc = "codec" /\ cx.op = "weak" /\ cx.step = "both" =>
    /\ cx.out.summed = cx.arg.length /\ cx.out.done = cx.arg.length
    /\ cx.out.o1 = cx.out.s1 /\ cx.out.o2 = cx.out.s2
    /\ cx.out.o1 \in 0..(M16 - 1) /\ cx.out.o2 \in 0..(M16 - 1)
    /\ cx.arg.length <= 8 =>
         rolling_checksum_optimized(RExpand(cx.arg.data), cx.arg.offset, cx.arg.length)
           = rolling_checksum(RExpand(cx.arg.data), cx.arg.offset, cx.arg.length)

\* A window of 259 bytes of 255 that ends in other bytes: both sums have
\* passed 2^16 and the last three bytes are summed one by one.
C39_Witness ==
  /\ pc = "codec" /\ cx.op = "weak" /\ cx.step = "both"
  /\ cx.arg.length = 259 /\ cx.arg.offset = 1
  /\ cx.arg.data = <<Run(255, 2), Run(255, MaxRun), Run(1, 2)>>
  /\ cx.out.s1 = (259 * 255) % M16
  /\ cx.out.o1 = cx.out.s1 /\ cx.out.o2 = cx.out.s2

(***************************************************************************)
(* IOBuffer: the circular buffer of a ProtocolIO, filled by append and by  *)
(* reads from a file descriptor, emptied by peek and consume.  The bytes   *)
(* that enter the buffer are numbered 1, 2, ... in the order they enter.   *)
(* ib.avail is what the peer has written to the descriptor and the buffer  *)
(* has not read; a read of a blocking descriptor with nothing to read      *)
(* waits, a read of a non-blocking one raises BlockingIOError.             *)
(***************************************************************************)

IOBufSize == 4
MaxIOBytes == 7
MaxIOCalls == 4

\* buf[i0:i1] = data on a bytearray
PySetSlice(buf, i0, i1, data) ==
  LET lo == PyIdx(Len(buf), i0)
      hi == Max(lo, PyIdx(Len(buf), i1))
  IN  SubSeq(buf, 1, lo) \o data \o SubSeq(buf, hi + 1, Len(buf))

\* IOBuffer.consume(size)
consume(b, size) ==
  [b EXCEPT !.pos = (b.pos + size) % b.size, !.len = b.len - size]

\* IOBuffer.peek(size)
peek(b, size) ==
  LET n == IF size > b.len THEN b.len ELSE size
      end_ == b.pos + n
  IN  IF end_ > b.size
        THEN PySlice(b.buf, b.pos, b.size) \o PySlice(b.buf, 0, end_ - b.size)
      ELSE PySlice(b.buf, b.pos, end_)

\* An append that does not test the free space.
append_unchecked(b, data) ==
  IF data = << >> THEN [b EXCEPT !.status = "ok"]
  ELSE LET end_ == (b.pos + b.len) % b.size
           first == Min(Len(data), b.size - end_)
           remaining == Len(data) - first
           buf1 == PySetSlice(b.buf, end_, end_ + first, PySlice(data, 0, first))
       IN  [b EXCEPT !.buf = IF remaining # 0
                                THEN PySetSlice(buf1, 0, remaining,
                                                PySlice(data, first, first + remaining))
                              ELSE buf1,
                     !.len = b.len + Len(data), !.status = "ok"]

\* IOBuffer.append(data)
append(b, data) ==
  IF data = << >> THEN [b EXCEPT !.status = "ok"]
  ELSE IF Len(data) > b.size - b.len THEN [b EXCEPT !.status = "BufferError"]
  ELSE append_unchecked(b, data)

\* The next n bytes to enter the buffer.
NewBytes(b, n) == [i \in 1..n |-> b.fed + i]

\* IOBuffer.read(fd, size) for size > 0: the buffer after it, n = len(data) in
\* status "ok"; os.read returns what the descriptor holds, up to size bytes.
read_fd(b, size) ==
  LET want == Min(size, b.size - b.len)
      n == Min(want, b.avail)
  IN  IF want > 0 /\ b.avail = 0 /\ ~b.closed
        THEN [b |-> b, n |-> 0,
              status |-> IF b.blocking THEN "wait" ELSE "BlockingIOError"]
      ELSE IF n <= 0 THEN [b |-> b, n |-> 0, status |-> "ok"]
      ELSE With(append([b EXCEPT !.avail = @ - n], NewBytes(b, n)), LAMBDA a :
             [b |-> [a EXCEPT !.fed = @ + n], n |-> n, status |-> a.status])

\* ProtocolIO._read_raw_bytes(size) with in_buffer.in_fd set: the loop, then
\* peek and consume.
RECURSIVE read_raw_loop(_, _)
read_raw_loop(b, size) ==
  IF ~(b.len < size) THEN [b EXCEPT !.status = "ok"]
  ELSE With(read_fd(b, size - b.len), LAMBDA r :
         IF r.status = "wait" THEN [b EXCEPT !.status = "wait"]
         ELSE IF r.status = "BlockingIOError"
           THEN IF b.len > 0 THEN [b EXCEPT !.status = "ok"]
                ELSE [b EXCEPT !.status = "BlockingIOError"]
         ELSE IF r.status # "ok" THEN [r.b EXCEPT !.status = r.status]
         ELSE IF r.n = 0 THEN [r.b EXCEPT !.status = "EOFError"]
         ELSE read_raw_loop(r.b, size))

read_raw_bytes_fd(b, size) ==
  With(read_raw_loop(b, size), LAMBDA l :
    IF l.status # "ok" THEN l
    ELSE [consume(l, size) EXCEPT !.out = @ \o peek(l, size)])

IOBufferInit ==
  /\ PipelineIdle
  /\ WireIdle
  /\ TokenIdle
  /\ HandshakeIdle
  /\ ChoiceIdle
  /\ FlistIdle
  /\ MplexInIdle
  /\ MplexOutIdle
  /\ CodecIdle
  /\ FileSumIdle
  /\ ReceiveIdle
  /\ SignatureIdle
  /\ StreamIdle
  /\ StatsIdle
  /\ pc = "iobuffer"
  /\ \E blocking \in BOOLEAN :
       ib = [pc |-> "iobuffer", size |-> IOBufSize,
             buf |-> [i \in 1..IOBufSize |-> 0], pos |-> 0, len |-> 0,
             blocking |-> blocking, avail |-> 0, closed |-> FALSE, fed |-> 0,
             out |-> << >>, status |-> "ok", calls |-> 0,
             last |-> [op |-> "none", n |-> 0, before |-> << >>]]

IOCalled(b, op, n) ==
  [b EXCEPT !.calls = ib.calls + 1,
            !.last = [op |-> op, n |-> n,
                      before |-> <<ib.buf, ib.pos, ib.len>>]]

\* The peer writes bytes to the descriptor, or closes it.
IOPeerWrite ==
  /\ pc = "iobuffer"
  /\ ~ib.closed
  /\ \E n \in 1..2 :
       /\ ib.fed + ib.avail + n <= MaxIOBytes
       /\ ib' = [ib EXCEPT !.avail = @ + n]
  /\ UNCHANGED <<pc, iobuffer_frame>>

IOPeerClose ==
  /\ pc = "iobuffer"
  /\ ~ib.closed
  /\ ib' = [ib EXCEPT !.closed = TRUE]
  /\ UNCHANGED <<pc, iobuffer_frame>>

\* buffer.append(data) with data of n bytes
IOAppend ==
  /\ pc = "iobuffer"
  /\ ib.calls < MaxIOCalls
  /\ \E n \in 1..(IOBufSize + 1) :
       /\ ib.fed + ib.avail + n <= MaxIOBytes
       /\ With(append(ib, NewBytes(ib, n)), LAMBDA a :
            ib' = IOCalled([a EXCEPT !.fed = IF a.status = "ok" THEN @ + n ELSE @],
                           "append", n))
  /\ UNCHANGED <<pc, iobuffer_frame>>

\* data = buffer.peek(n); buffer.consume(n) by a caller that takes no more
\* than the buffer holds
IOConsume ==
  /\ pc = "iobuffer"
  /\ ib.calls < MaxIOCalls
  /\ \E n \in 1..IOBufSize :
       /\ n <= ib.len
       /\ ib' = IOCalled([consume(ib, n) EXCEPT !.out = @ \o peek(ib, n),
                                                !.status = "ok"],
                         "consume", n)
  /\ UNCHANGED <<pc, iobuffer_frame>>

\* io._read_raw_bytes(size) returns or raises
IOReadRawBytes ==
  /\ pc = "iobuffer"
  /\ ib.calls < MaxIOCalls
  /\ \E size \in 1..IOBufSize :
       With(read_raw_bytes_fd(ib, size), LAMBDA r :
         /\ r.status # "wait"
         /\ ib' = IOCalled(r, "read_raw_bytes", size))
  /\ UNCHANGED <<pc, iobuffer_frame>>

IOBufferNext ==
  IOPeerWrite \/ IOPeerClose \/ IOAppend \/ IOConsume \/ IOReadRawBytes

IOBufferSpec == IOBufferInit /\ [][IOBufferNext]_vars

\* C40: 0 <= len <= size and 0 <= pos < size; the bytes handed out so far
\* and the bytes held are the bytes that entered, in their order; an append
\* larger than the free space raises BufferError and changes nothing.
C40_IOBufferFifo ==
  pc = "iobuffer" =>
    /\ 0 <= ib.len /\ ib.len <= ib.size
    /\ 0 <= ib.pos /\ ib.pos < ib.size
    /\ Len(ib.buf) = ib.size
    /\ ib.out \o peek(ib, ib.len) = [i \in 1..ib.fed |-> i]
    /\ ib.last.op = "append" =>
         IF ib.last.n > ib.size - ib.last.before[3]
           THEN /\ ib.status = "BufferError"
                /\ <<ib.buf, ib.pos, ib.len>> = ib.last.before
         ELSE ib.status = "ok"

====
